---- MODULE Spec2Model ----
(***************************************************************************)
(* NMS Companion: the curated search route, the live (Reddit) search       *)
(* route and the page's follow-up dispatcher, modelled from the source.    *)
(*                                                                         *)
(* Text is kept as TLA+ strings and processed character by character, the  *)
(* way the JavaScript string methods and regular expressions of the source *)
(* process it.  The inputs are ASCII.                                      *)
(***************************************************************************)
EXTENDS Integers, Sequences, FiniteSets, TLC

(***************************************************************************)
(* JavaScript string primitives.  A replace(/re/g, r) is given by what it  *)
(* puts in the place of each character (the character, the replacement at  *)
(* the start of a match, nothing inside a match), and the pieces are       *)
(* concatenated.                                                           *)
(***************************************************************************)

Ch(s, i) == SubSeq(s, i, i)

\* s.charAt(i): "" outside the string
CharAt(s, i) == IF i >= 1 /\ i <= Len(s) THEN SubSeq(s, i, i) ELSE ""

\* F(v), with v evaluated once, before F is entered
ApplyTo(v, F(_)) == CHOOSE result \in {F(x) : x \in {v}} : TRUE

Min(a, b) == IF a <= b THEN a ELSE b

Max(a, b) == IF a >= b THEN a ELSE b

\* \s of a JavaScript regular expression, over ASCII
Whitespace == {" ", "\n", "\t", "\r"}

UpperAlpha == "ABCDEFGHIJKLMNOPQRSTUVWXYZ"

LowerAlpha == "abcdefghijklmnopqrstuvwxyz"

Digits == "0123456789"

CharsOf(s) == {Ch(s, i) : i \in 1..Len(s)}

UpperSet == CharsOf(UpperAlpha)

LowerCh(c) ==
  IF c \in UpperSet
  THEN Ch(LowerAlpha, CHOOSE i \in 1..Len(UpperAlpha) : Ch(UpperAlpha, i) = c)
  ELSE c

\* the concatenation of the strings seq[lo..hi]
RECURSIVE ConcatRange(_, _, _)
ConcatRange(seq, lo, hi) ==
  IF lo > hi THEN ""
  ELSE IF lo = hi THEN seq[lo]
       ELSE LET mid == (lo + hi) \div 2
            IN  ConcatRange(seq, lo, mid) \o ConcatRange(seq, mid + 1, hi)

Concat(seq) == ConcatRange(seq, 1, Len(seq))

\* String.prototype.toLowerCase
toLowerCase(value) ==
  ApplyTo(value, LAMBDA s : Concat([i \in 1..Len(s) |-> LowerCh(Ch(s, i))]))

\* the first index j >= i with s[j] in C, or Len(s) + 1
FindIn(s, i, C) ==
  IF i > Len(s) THEN i
  ELSE CHOOSE j \in i..(Len(s) + 1) :
         /\ j > Len(s) \/ Ch(s, j) \in C
         /\ \A k \in i..(j - 1) : Ch(s, k) \notin C

\* the end (exclusive) of the run of characters of C that starts at i
RunEnd(s, i, C) ==
  IF i > Len(s) THEN i
  ELSE CHOOSE j \in i..(Len(s) + 1) :
         /\ j > Len(s) \/ Ch(s, j) \notin C
         /\ \A k \in i..(j - 1) : Ch(s, k) \in C

\* the start (exclusive) of the run of characters of C that ends at i
RunStartBack(s, i, C) ==
  IF i < 1 THEN i
  ELSE CHOOSE j \in 0..i :
         /\ j = 0 \/ Ch(s, j) \notin C
         /\ \A k \in (j + 1)..i : Ch(s, k) \in C

\* String.prototype.trim
trim(value) ==
  ApplyTo(value, LAMBDA s :
    SubSeq(s, RunEnd(s, 1, Whitespace), RunStartBack(s, Len(s), Whitespace)))

StartsWithAt(s, i, p) ==
  /\ i >= 1
  /\ i + Len(p) - 1 <= Len(s)
  /\ SubSeq(s, i, i + Len(p) - 1) = p

startsWith(s, p) == StartsWithAt(s, 1, p)

endsWith(s, p) == StartsWithAt(s, Len(s) - Len(p) + 1, p)

\* String.prototype.includes
includes(value, sub) ==
  ApplyTo(value, LAMBDA s :
    \E i \in 1..(Len(s) - Len(sub) + 1) : SubSeq(s, i, i + Len(sub) - 1) = sub)

\* s.replace(/[C]+/g, r): every maximal run of characters of C becomes r
ReplaceRuns(value, C, r) ==
  ApplyTo(value, LAMBDA s :
    Concat([i \in 1..Len(s) |->
      IF Ch(s, i) \notin C THEN Ch(s, i)
      ELSE IF i = 1 \/ Ch(s, i - 1) \notin C THEN r ELSE ""]))

\* s.replace(/\s+/g, " ")
collapseWhitespace(s) == ReplaceRuns(s, Whitespace, " ")

\* s.replace(/lit/g, r) for a literal lit that cannot overlap itself
ReplaceLiteral(value, lit, r) ==
  ApplyTo(value, LAMBDA s :
    Concat([i \in 1..Len(s) |->
      IF StartsWithAt(s, i, lit) THEN r
      ELSE IF \E k \in 1..(Len(lit) - 1) : StartsWithAt(s, i - k, lit) THEN ""
           ELSE Ch(s, i)]))

\* the concatenation of the sequences seq[lo..hi]
RECURSIVE FlattenRange(_, _, _)
FlattenRange(seq, lo, hi) ==
  IF lo > hi THEN << >>
  ELSE IF lo = hi THEN seq[lo]
       ELSE LET mid == (lo + hi) \div 2
            IN  FlattenRange(seq, lo, mid) \o FlattenRange(seq, mid + 1, hi)

Flatten(seq) == FlattenRange(seq, 1, Len(seq))

\* s.split(c) for a one-character separator: "" splits into <<"">>.  A part
\* starts at 1 and after every separator, and runs to the next separator.
split(value, c) ==
  ApplyTo(value, LAMBDA s :
    Flatten([i \in 1..(Len(s) + 1) |->
      IF i = 1 \/ Ch(s, i - 1) = c
      THEN <<SubSeq(s, i, FindIn(s, i, {c}) - 1)>>
      ELSE << >>]))

\* Array.prototype.join
join(strings, sep) ==
  ApplyTo(strings, LAMBDA seq :
    Concat([i \in 1..Len(seq) |-> IF i = 1 THEN seq[i] ELSE sep \o seq[i]]))

\* Array.prototype.filter((item, index) => ...): index counts from 0
SelectIdx(items, Keep(_, _)) ==
  ApplyTo(SubSeq(items, 1, Len(items)), LAMBDA seq :
    ApplyTo({i \in 1..Len(seq) : Keep(seq[i], i - 1)}, LAMBDA kept :
      SubSeq([k \in 1..Cardinality(kept) |->
                seq[CHOOSE i \in kept : Cardinality({j \in kept : j <= i}) = k]],
             1, Cardinality(kept))))

\* a slice that forgets its limit
sliceAll(seq, n) == seq

\* Array.prototype.slice(0, n)
slice0(seq, n) == SubSeq(seq, 1, Min(n, Len(seq)))

Range(seq) == {seq[i] : i \in 1..Len(seq)}

(***************************************************************************)
(* Text normalizer (both route files and the page hold the same function)  *)
(***************************************************************************)

AlnumOrSpace == CharsOf(LowerAlpha) \cup CharsOf(Digits) \cup Whitespace

\* s.replace(/[^a-z0-9\s]/g, " ")
nonAlnumToSpace(value) ==
  ApplyTo(value, LAMBDA s :
    Concat([i \in 1..Len(s) |-> IF Ch(s, i) \in AlnumOrSpace THEN Ch(s, i) ELSE " "]))

normalizeForMatch(value) ==
  ApplyTo(nonAlnumToSpace(toLowerCase(value)), LAMBDA spaced :
    trim(collapseWhitespace(spaced)))

\* the curated route's tokenize: no stemming
tokenize(value) ==
  ApplyTo(normalizeForMatch(value), LAMBDA normalized :
    SelectSeq(split(normalized, " "), LAMBDA token : Len(token) > 1))

stem(token) ==
  IF Len(token) > 4 /\ endsWith(token, "es") THEN SubSeq(token, 1, Len(token) - 2)
  ELSE IF Len(token) > 3 /\ endsWith(token, "s") THEN SubSeq(token, 1, Len(token) - 1)
  ELSE token

\* the live route's tokenize: drops one-character tokens, then stems
tokenizeLive(value) ==
  ApplyTo(tokenize(value), LAMBDA kept :
    SubSeq([i \in 1..Len(kept) |-> stem(kept[i])], 1, Len(kept)))

(***************************************************************************)
(* Link stripper and text cleaner (live route)                             *)
(***************************************************************************)

\* the length of the match of (?:https?:\/\/|www\.) at i under the i flag, or 0
UrlPrefixLen(s, i) ==
  IF i < 1 \/ i > Len(s) THEN 0
  ELSE ApplyTo(toLowerCase(SubSeq(s, i, Min(Len(s), i + 7))), LAMBDA head :
         IF startsWith(head, "http://") THEN 7
         ELSE IF startsWith(head, "https://") THEN 8
         ELSE IF startsWith(head, "www.") THEN 4
         ELSE 0)

\* the end (exclusive) of the match of \[[^\]]+\]\((?:https?:\/\/|www\.)[^)]+\) at i, or 0
MdLinkEnd(s, i) ==
  IF Ch(s, i) # "[" THEN 0
  ELSE ApplyTo(FindIn(s, i + 1, {"]"}), LAMBDA j :
         IF j > Len(s) \/ j = i + 1 \/ j + 1 > Len(s) \/ Ch(s, j + 1) # "(" THEN 0
         ELSE ApplyTo(UrlPrefixLen(s, j + 2), LAMBDA p :
                IF p = 0 THEN 0
                ELSE ApplyTo(FindIn(s, j + 2 + p, {")"}), LAMBDA k :
                       IF k > Len(s) \/ k = j + 2 + p THEN 0 ELSE k + 1)))

\* the end (exclusive) of the match of (?:https?:\/\/|www\.)\S+ at i, or 0
BareUrlEnd(s, i) ==
  ApplyTo(UrlPrefixLen(s, i), LAMBDA p :
    IF p = 0 THEN 0
    ELSE ApplyTo(FindIn(s, i + p, Whitespace), LAMBDA k :
           IF k = i + p THEN 0 ELSE k))

\* s.replace(/\[[^\]]+\]\((?:https?:\/\/|www\.)[^)]+\)/gi, ""): two matches that
\* overlap end at the same ")", so a character is removed exactly when a match
\* that starts at or before it reaches past it
removeMdLinks(value) ==
  ApplyTo(value, LAMBDA s :
    ApplyTo({j \in 1..Len(s) : MdLinkEnd(s, j) > 0}, LAMBDA starts :
      Concat([i \in 1..Len(s) |->
        IF \E j \in starts : j <= i /\ i < MdLinkEnd(s, j) THEN "" ELSE Ch(s, i)])))

\* s.replace(/(?:https?:\/\/|www\.)\S+/gi, ""): a match runs to the end of its
\* whitespace-free word, so a character is removed exactly when a match starts
\* at or before it in its word
removeBareUrls(value) ==
  ApplyTo(value, LAMBDA s :
    ApplyTo({j \in 1..Len(s) : BareUrlEnd(s, j) > 0}, LAMBDA starts :
      Concat([i \in 1..Len(s) |->
        IF \E j \in starts : j <= i /\ i < BareUrlEnd(s, j) THEN "" ELSE Ch(s, i)])))

stripExternalLinks(value) ==
  ApplyTo(removeBareUrls(removeMdLinks(value)), LAMBDA unlinked :
    trim(collapseWhitespace(unlinked)))

\* the characters of /[*_>#~]+/; the source's class also holds the backquote,
\* which a TLA+ string cannot hold and no input here contains
MarkupChars == {"*", "_", ">", "#", "~"}

\* s.replace(/\s*\n\s*/g, " "): a whitespace run that holds a newline becomes " "
newlinesToSpace(value) ==
  ApplyTo(value, LAMBDA s :
    Concat([i \in 1..Len(s) |->
      IF Ch(s, i) \notin Whitespace THEN Ch(s, i)
      ELSE IF \E k \in (RunStartBack(s, i, Whitespace) + 1)..(RunEnd(s, i, Whitespace) - 1) :
                 Ch(s, k) = "\n"
           THEN (IF i = 1 \/ Ch(s, i - 1) \notin Whitespace THEN " " ELSE "")
           ELSE Ch(s, i)]))

cleanText(value) ==
  ApplyTo(stripExternalLinks(value), LAMBDA stripped :
    ApplyTo(ReplaceRuns(ReplaceLiteral(stripped, "&amp;", "&"), MarkupChars, ""),
            LAMBDA unmarked :
      trim(collapseWhitespace(newlinesToSpace(unmarked)))))

\* s[i] is in a run of two or more dashes
InLongDash(s, i) ==
  /\ i >= 1
  /\ i <= Len(s)
  /\ Ch(s, i) = "-"
  /\ RunEnd(s, i, {"-"}) - RunStartBack(s, i, {"-"}) - 1 >= 2

\* s.replace(/\s*[-]{2,}\s*/g, " - ")  (the en and em dash are outside ASCII):
\* a run of two or more dashes becomes " - " and takes the whitespace around it
dashRuns(value) ==
  ApplyTo(value, LAMBDA s :
    Concat([i \in 1..Len(s) |->
      IF InLongDash(s, i) THEN (IF i = 1 \/ Ch(s, i - 1) # "-" THEN " - " ELSE "")
      ELSE IF Ch(s, i) \in Whitespace
              /\ (\/ InLongDash(s, RunStartBack(s, i, Whitespace))
                  \/ InLongDash(s, RunEnd(s, i, Whitespace)))
           THEN ""
           ELSE Ch(s, i)]))

\* s.replace(/([!?.,])\1{1,}/g, "$1")
repeatedPunct(value) ==
  ApplyTo(value, LAMBDA s :
    Concat([i \in 1..Len(s) |->
      IF Ch(s, i) \in {"!", "?", ".", ","} /\ i > 1 /\ Ch(s, i - 1) = Ch(s, i)
      THEN "" ELSE Ch(s, i)]))

\* s.replace(/\s+([!?.,;:])/g, "$1")
spaceBeforePunct(value) ==
  ApplyTo(value, LAMBDA s :
    Concat([i \in 1..Len(s) |->
      IF /\ Ch(s, i) \in Whitespace
         /\ CharAt(s, RunEnd(s, i, Whitespace)) \in {"!", "?", ".", ",", ";", ":"}
      THEN "" ELSE Ch(s, i)]))

polishSentence(value) ==
  ApplyTo(cleanText(value), LAMBDA cleaned :
    ApplyTo(repeatedPunct(dashRuns(ReplaceRuns(cleaned, {"|"}, " "))), LAMBDA spaced :
      trim(collapseWhitespace(spaceBeforePunct(spaced)))))

(***************************************************************************)
(* Sentence splitter and extractive summarizer (live route)                *)
(***************************************************************************)

SentenceEnd == {".", "!", "?"}

\* s.split(/(?<=[.!?])\s+/): cut at every whitespace run that follows . ! or ?
RECURSIVE splitAtCutsFrom(_, _, _)
splitAtCutsFrom(s, start, cuts) ==
  LET later == {c \in cuts : c >= start}
  IN  IF later = {} THEN <<SubSeq(s, start, Len(s))>>
      ELSE LET c == CHOOSE x \in later : \A y \in later : x <= y
           IN  <<SubSeq(s, start, c - 1)>>
                 \o splitAtCutsFrom(s, RunEnd(s, c, Whitespace), cuts)

splitAfterPunct(value) ==
  ApplyTo(value, LAMBDA s :
    splitAtCutsFrom(s, 1,
      {i \in 2..Len(s) : Ch(s, i) \in Whitespace /\ Ch(s, i - 1) \in SentenceEnd}))

splitSentences(value) ==
  ApplyTo(splitAfterPunct(polishSentence(value)), LAMBDA parts :
    SelectSeq([i \in 1..Len(parts) |-> polishSentence(parts[i])],
              LAMBDA sentence : Len(sentence) > 0))

\* Array.prototype.sort with a comparator (a, b) => key(b) - key(a): stable and
\* descending.  Gt(x, y) says that x's key is greater than y's.  An element
\* comes after those of a greater key and those of an equal key that precede it.
SortDesc(items, Gt(_, _)) ==
  ApplyTo(SubSeq(items, 1, Len(items)), LAMBDA seq :
    SubSeq([p \in 1..Len(seq) |->
              seq[CHOOSE i \in 1..Len(seq) :
                    p = 1 + Cardinality({j \in 1..Len(seq) :
                              /\ j # i
                              /\ Gt(seq[j], seq[i]) \/ (j < i /\ ~Gt(seq[i], seq[j]))})]],
           1, Len(seq)))

\* the score pickBestSentences gives a sentence: the number of keyword groups
\* with a keyword in the normalized sentence
sentenceScore(sentence, keywordGroups) ==
  ApplyTo(normalizeForMatch(sentence), LAMBDA normalized :
    Cardinality({g \in 1..Len(keywordGroups) :
      \E k \in 1..Len(keywordGroups[g]) : includes(normalized, keywordGroups[g][k])}))

\* a selection that returns no line when it has kept none
pickBestSentencesNoFallback(sentences, keywordGroups, fallback, count) ==
  ApplyTo(slice0(SelectIdx(SortDesc([i \in 1..Len(sentences) |->
                                      [sentence |-> sentences[i],
                                       score |-> sentenceScore(sentences[i], keywordGroups)]],
                                    LAMBDA a, b : a.score > b.score),
                           LAMBDA item, index : item.score > 0 \/ index < count),
                 count),
          LAMBDA top :
    SubSeq([i \in 1..Len(top) |-> top[i].sentence], 1, Len(top)))

pickBestSentences(sentences, keywordGroups, fallback, count) ==
  ApplyTo(slice0(SelectIdx(SortDesc([i \in 1..Len(sentences) |->
                                      [sentence |-> sentences[i],
                                       score |-> sentenceScore(sentences[i], keywordGroups)]],
                                    LAMBDA a, b : a.score > b.score),
                           LAMBDA item, index : item.score > 0 \/ index < count),
                 count),
          LAMBDA top :
    IF Len(top) > 0
    THEN SubSeq([i \in 1..Len(top) |-> top[i].sentence], 1, Len(top))
    ELSE <<fallback>>)

sanitizeTitle(value, query) ==
  ApplyTo(polishSentence(value), LAMBDA cleaned :
    IF Len(cleaned) > 0 THEN cleaned ELSE "Community result for " \o query)

(***************************************************************************)
(* Live source scorer                                                      *)
(***************************************************************************)

MODE_KEYWORDS ==
  [howto |-> <<"how", "craft", "build", "farm", "route", "method", "loop",
               "efficient", "best", "guide">>,
   where |-> <<"where", "find", "location", "planet", "system", "station",
               "spawn", "drop", "vendor">>]

META_TITLE_KEYWORDS ==
  <<"expedition", "update", "review", "screenshot", "photo", "showcase",
    "trailer", "impressions">>

\* an optional property of a JSON object: the record has the field or not
Has(r, f) == f \in DOMAIN r

\* r.f ?? dflt
OrElse(r, f, dflt) == IF Has(r, f) THEN r[f] ELSE dflt

countTokenOverlap(text, queryTokens) ==
  IF Len(queryTokens) = 0 THEN 0
  ELSE ApplyTo(Range(tokenizeLive(text)), LAMBDA tokenSet :
         Cardinality({i \in 1..Len(queryTokens) : queryTokens[i] \in tokenSet}))

countKeywordHits(text, keywords) ==
  IF Len(keywords) = 0 THEN 0
  ELSE ApplyTo(Range(tokenizeLive(text)), LAMBDA tokenSet :
         Cardinality({i \in 1..Len(keywords) : keywords[i] \in tokenSet}))

hasNmsContext(post) ==
  ApplyTo(normalizeForMatch(OrElse(post, "title", "") \o " "
            \o OrElse(post, "selftext", "") \o " "
            \o OrElse(post, "subreddit_name_prefixed", "")),
          LAMBDA context :
    \E keyword \in {"no man s sky", "nomanssky", "nms", "anomaly", "sentinel", "atlas"} :
      includes(context, keyword))

(***************************************************************************)
(* A quality score is overlapInTitle * 10 + ... - metaPenalty, a multiple  *)
(* of 0.5, plus 2 * log10(arg).  It is kept exactly as the pair            *)
(*   half = twice the part without the logarithm,  arg = the logarithm's   *)
(*   argument,                                                             *)
(* and two scores are compared exactly:                                    *)
(*   x > y  iff  x.arg^4 * 10^x.half > y.arg^4 * 10^y.half.                *)
(***************************************************************************)
RECURSIVE Pow(_, _)
Pow(b, n) == IF n = 0 THEN 1 ELSE b * Pow(b, n - 1)

\* a * 10^d > b, for d >= 0, a >= 1 and a, b below 2^31
TimesPow10Gt(a, d, b) == IF d >= 10 THEN TRUE ELSE a > b \div Pow(10, d)

\* a > b * 10^d, for d >= 0 and a, b below 2^31
GtTimesPow10(a, b, d) == IF d >= 10 THEN FALSE ELSE (a - 1) \div Pow(10, d) >= b

ScoreGt(x, y) ==
  LET a == Pow(x.arg, 4)
      b == Pow(y.arg, 4)
      d == x.half - y.half
  IN  IF d >= 0 THEN TimesPow10Gt(a, d, b) ELSE GtTimesPow10(a, b, 0 - d)

\* the number n as a score
ScoreConst(n) == [half |-> 2 * n, arg |-> 1]

\* score >= n
ScoreGE(x, n) == ~ScoreGt(ScoreConst(n), x)

scoreRedditPost(post, queryTokens, type) ==
  ApplyTo(cleanText(OrElse(post, "title", "")), LAMBDA title :
  ApplyTo(cleanText(OrElse(post, "selftext", "")), LAMBDA body :
    LET overlapInTitle == countTokenOverlap(title, queryTokens)
        overlapInBody == countTokenOverlap(body, queryTokens)
        modeHitInTitle == countKeywordHits(title, MODE_KEYWORDS[type])
        modeHitInBody == countKeywordHits(body, MODE_KEYWORDS[type])
        engagementArg == Max(OrElse(post, "score", 0) + OrElse(post, "num_comments", 0), 1) + 1
        hasBody == IF Len(body) >= 60 THEN 1 ELSE 0
        nmsBoost == IF hasNmsContext(post) THEN 2 ELSE 0
        metaPenalty ==
          IF /\ countKeywordHits(title, META_TITLE_KEYWORDS) > 0
             /\ ~\E i \in 1..Len(queryTokens) : queryTokens[i] \in Range(META_TITLE_KEYWORDS)
          THEN 4 ELSE 0
    IN  [half |-> overlapInTitle * 20 + overlapInBody * 8 + modeHitInTitle * 6
                    + modeHitInBody * 3 + hasBody * 2 + nmsBoost * 2 - metaPenalty * 2,
         arg |-> engagementArg]))

(***************************************************************************)
(* Answer card builder (live route)                                        *)
(***************************************************************************)

toSearchResultFromReddit(post, query, type) ==
  ApplyTo([title |-> sanitizeTitle(OrElse(post, "title", ""), query),
           body |-> polishSentence(OrElse(post, "selftext", "")),
           subreddit |-> cleanText(OrElse(post, "subreddit_name_prefixed", "r/NoMansSkyTheGame")),
           author |-> cleanText(OrElse(post, "author", "unknown"))], LAMBDA text :
  ApplyTo(splitSentences(polishSentence(text.title \o ". " \o text.body)), LAMBDA sentences :
  ApplyTo([whereLines |-> pickBestSentences(sentences,
             << <<"where", "find", "found", "location", "planet", "system", "station", "biome">>,
                <<"farm", "drop", "spawn", "sentinel", "anomaly", "vendor", "market">> >>,
             "Community reports suggest checking mission hubs, planets matching the resource biome, and station trade loops.",
             2),
           howLines |-> pickBestSentences(sentences,
             << <<"how", "use", "craft", "build", "route", "method", "loop">>,
                <<"tip", "best", "fast", "efficient", "priority", "upgrade">> >>,
             "Community advice generally favors repeatable loops, inventory prep, and stacking compatible mission objectives.",
             2),
           tipCandidates |-> pickBestSentences(sentences,
             << <<"tip", "best", "fast", "efficient", "carry", "stack", "prioritize", "avoid">> >>,
             "Keep route loops short and inventory space ready for faster farming cycles.",
             3)], LAMBDA picked :
    [id |-> "reddit-" \o (IF Has(post, "id") THEN post.id
                           ELSE ReplaceRuns(normalizeForMatch(text.title), Whitespace, "-")),
     title |-> text.title,
     summary |-> polishSentence(IF type = "where" THEN picked.whereLines[1]
                                ELSE picked.howLines[1]),
     details |->
       join(<<"Where to find: " \o join(picked.whereLines, " "),
              "How to use: " \o join(picked.howLines, " "),
              "Tips:">>
            \o SubSeq([i \in 1..Len(picked.tipCandidates) |->
                         "- " \o polishSentence(picked.tipCandidates[i])],
                      1, Len(picked.tipCandidates)), "\n"),
     source |-> "Live Community Search",
     references |-> <<"Source set: Reddit live snapshot",
                      "Forum: " \o (IF text.subreddit # "" THEN text.subreddit
                                    ELSE "r/NoMansSkyTheGame"),
                      "Engagement: score " \o ToString(OrElse(post, "score", 0))
                        \o ", comments " \o ToString(OrElse(post, "num_comments", 0))>>,
     redditNotes |-> <<"Author: u/" \o text.author,
                       "External URLs are intentionally removed from this app output.">>,
     faq |-> <<[question |-> "How current is this guidance for " \o query \o "?",
                answer |-> "It is compiled from live community posts at request time and summarized in-app without outbound links."]>>])))

\* an identifier made of the query as it was typed
noMatchIdRaw(query) ==
  ApplyTo(ReplaceRuns(query, Whitespace, "-"), LAMBDA slug :
    "no-match-" \o (IF slug # "" THEN slug ELSE "query"))

\* `no-match-${normalizeForMatch(query).replace(/\s+/g, "-") || "query"}`
noMatchId(query) ==
  ApplyTo(ReplaceRuns(normalizeForMatch(query), Whitespace, "-"), LAMBDA slug :
    "no-match-" \o (IF slug # "" THEN slug ELSE "query"))

buildNoMatchResultLive(query, type) ==
  LET modeLabel == IF type = "where" THEN "where-to-find" ELSE "how-to"
  IN  [id |-> noMatchId(query),
       title |-> "No live community match for \"" \o query \o "\" yet",
       summary |-> "Try fewer words, singular terms, or the base material/item name.",
       details |->
         join(<<"Live search returned no strong match in this pass.",
                "Mode used: " \o modeLabel \o ".",
                "Suggested next tries:",
                "- Use a compact term (example: \"radiant heart\" instead of full sentence).",
                "- Try item, then process (example: nanites, then nanite farm).",
                "- Ask a follow-up in this card and refine step-by-step.">>, "\n"),
       source |-> "Live Community Search",
       references |-> <<"Live snapshot only">>,
       redditNotes |-> <<"Community data may be available on retry; all external links are removed by design.">>,
       faq |-> <<[question |-> "Can this still use Reddit data without links?",
                  answer |-> "Yes. Results can include Reddit-derived summaries while hiding outbound URLs."]>>]

(***************************************************************************)
(* Coverage filter, ranking and deduplication (the live route's GET)       *)
(***************************************************************************)

\* {} : the object fetchRedditPosts returns on every failure
EmptyObject == << >>

\* redditPayload.data?.children ?? []
childrenOf(redditPayload) ==
  IF Has(redditPayload, "data") /\ Has(redditPayload.data, "children")
  THEN redditPayload.data.children
  ELSE << >>

\* child.data, undefined (here the empty object) when the child has none
dataOf(child) == IF Has(child, "data") THEN child.data ELSE EmptyObject

\* a filter that asks for the identifier alone
isWellFormedIdOnly(post) == Has(post, "id") /\ post.id # ""

\* Boolean(post?.id && post?.title)
isWellFormed(post) ==
  /\ Has(post, "id") /\ post.id # ""
  /\ Has(post, "title") /\ post.title # ""

scoreItem(post, queryTokens, type) ==
  [post |-> post,
   qualityScore |-> scoreRedditPost(post, queryTokens, type),
   overlapTitle |-> countTokenOverlap(OrElse(post, "title", ""), queryTokens),
   overlap |-> countTokenOverlap(OrElse(post, "title", "") \o " " \o OrElse(post, "selftext", ""),
                                 queryTokens)]

\* Math.ceil(n * 0.5)
ceilHalf(n) == (n + 1) \div 2

\* the admission filter without its usefulness threshold
isAdmittedAnyScore(item, queryTokens) ==
  IF Len(queryTokens) = 0 THEN TRUE
  ELSE IF Len(queryTokens) = 1 THEN item.overlapTitle >= 1
  ELSE /\ item.overlap >= Max(1, ceilHalf(Len(queryTokens)))
       /\ item.overlapTitle >= 1

\* the admission filter without its coverage requirement
isAdmittedNoCoverage(item, queryTokens) ==
  IF Len(queryTokens) = 0 THEN TRUE
  ELSE item.overlapTitle >= 1 /\ ScoreGE(item.qualityScore, 7)

\* the admission filter without the title hit that closes its last conjunction
isAdmittedStrongBody(item, queryTokens) ==
  IF Len(queryTokens) = 0 THEN TRUE
  ELSE IF Len(queryTokens) = 1
       THEN item.overlapTitle >= 1 /\ ScoreGE(item.qualityScore, 7)
       ELSE /\ item.overlap >= Max(1, ceilHalf(Len(queryTokens)))
            /\ \/ item.overlapTitle >= 1
               \/ item.overlap >= Max(1, ceilHalf(Len(queryTokens))) + 1
            /\ ScoreGE(item.qualityScore, 7)

\* the admission filter of the live GET
isAdmitted(item, queryTokens) ==
  IF Len(queryTokens) = 0 THEN TRUE
  ELSE LET minCoverage == Max(1, ceilHalf(Len(queryTokens)))
           hasStrongCoverage == item.overlap >= minCoverage
           hasTitleHit == item.overlapTitle >= 1
           hasUsefulSignal == ScoreGE(item.qualityScore, 7)
           hasTitleOrVeryStrongBody == hasTitleHit \/ item.overlap >= minCoverage + 1
       IN  IF Len(queryTokens) = 1
           THEN hasTitleHit /\ hasUsefulSignal
           ELSE hasStrongCoverage /\ hasTitleOrVeryStrongBody /\ hasUsefulSignal /\ hasTitleHit

scoredItems(redditPayload, queryTokens, type) ==
  LET children == childrenOf(redditPayload)
      posts == [i \in 1..Len(children) |-> dataOf(children[i])]
      wellFormed == SelectSeq(posts, isWellFormed)
  IN  [i \in 1..Len(wellFormed) |-> scoreItem(wellFormed[i], queryTokens, type)]

admittedItems(items, queryTokens) ==
  SelectSeq(items, LAMBDA item : isAdmitted(item, queryTokens))

\* a sort that leaves the retrieval order
keepOrder(items) == items

sortByQuality(items) ==
  SortDesc(items, LAMBDA left, right : ScoreGt(left.qualityScore, right.qualityScore))

\* the second filter: the first of each normalized title; an empty one only at index 0
dedupeByTitle(all) ==
  ApplyTo(SubSeq([k \in 1..Len(all) |-> normalizeForMatch(OrElse(all[k].post, "title", ""))],
                 1, Len(all)), LAMBDA normalizedTitles :
    SelectIdx(all, LAMBDA item, index :
      IF normalizedTitles[index + 1] = "" THEN index = 0
      ELSE (CHOOSE k \in 1..Len(all) :
              /\ normalizedTitles[k] = normalizedTitles[index + 1]
              /\ \A m \in 1..(k - 1) : normalizedTitles[m] # normalizedTitles[index + 1])
           = index + 1))

\* the cards without the no-match fallback
liveResultsNoFallback(dedupedRanked, query, type) ==
  ApplyTo(slice0(dedupedRanked, 8), LAMBDA top :
    SubSeq([i \in 1..Len(top) |-> toSearchResultFromReddit(top[i].post, query, type)],
           1, Len(top)))

MaxResults == 8

\* dedupedRanked.slice(0, 8).map(toSearchResultFromReddit), or the no-match card
liveResults(dedupedRanked, query, type) ==
  ApplyTo(slice0(dedupedRanked, MaxResults), LAMBDA top :
  ApplyTo(SubSeq([i \in 1..Len(top) |-> toSearchResultFromReddit(top[i].post, query, type)],
                 1, Len(top)), LAMBDA redditResults :
    IF Len(redditResults) > 0 THEN redditResults
    ELSE <<buildNoMatchResultLive(query, type)>>))

(***************************************************************************)
(* Curated route: the knowledge table, its scorer and its GET              *)
(***************************************************************************)

LOCAL_KNOWLEDGE ==
  <<
    [ id |-> "radiant-heart",
      title |-> "Radiant Heart",
      aliases |-> << "radiant heart",
                   "radiant hearts",
                   "sentinel heart" >>,
      whereToFind |->
        "Radiant Hearts are commonly earned from Sentinel combat loops, especially in corrupted zones and high-alert Sentinel areas.",
      howToUse |->
        "Used in advanced crafting and upgrade paths tied to Sentinel-related technology and high-tier progression components.",
      tips |-> << "Use a Sentinel Pillar area as a repeatable combat route.",
                "Carry ammo and shield recharge so you can farm multiple waves in one run.",
                "Deposit rare drops often if inventory is tight." >>,
      references |-> << "No Man's Sky Wiki (internal summary)",
                      "Community route notes (internal summary)" >>,
      redditNotes |-> << "Players often report best drop consistency from sustained Sentinel wave clears.",
                       "Many community routes pair Sentinel farms with nearby salvage stops." >>,
      faq |-> << [question |-> "What is the fastest way to farm Radiant Hearts?",
            answer |-> "A strong loop is repeating Sentinel wave combat near a Pillar, collecting drops, then resetting at another hotspot."],
               [question |-> "Do I need a specific biome for Radiant Hearts?",
            answer |-> "Not strictly, but corrupted or high-Sentinel-pressure zones usually feel most consistent."] >>,
      video |-> [mode |-> "storyboard",
                  title |-> "Sentinel farming route example",
                  note |-> "In-app storyboard guide. No external video service required.",
                  segments |-> << [label |-> "00:00 - Prep",
                         detail |-> "Land near a Sentinel Pillar, reload ammo, and verify shield recharge supply."],
                                 [label |-> "00:40 - Trigger",
                         detail |-> "Start Sentinel engagement and maintain line-of-sight control instead of over-chasing."],
                                 [label |-> "01:30 - Collect",
                         detail |-> "Sweep drops between waves and keep one free inventory row for fast looting."],
                                 [label |-> "02:20 - Reset Loop",
                         detail |-> "Move to the next nearby hotspot and repeat for consistent Radiant Heart farming."] >>] ],
    [ id |-> "living-glass",
      title |-> "Living Glass",
      aliases |-> << "living glass",
                   "lg",
                   "farm income" >>,
      whereToFind |->
        "Living Glass is usually crafted from plant-chain materials rather than found as a frequent raw pickup.",
      howToUse |->
        "Useful as a reliable mid-game money craft and for select blueprint requirements.",
      tips |-> << "Automate farm ingredients with biodomes or hydroponics.",
                "Craft in batches after each harvest cycle.",
                "Keep a dedicated storage tab for farm chain materials." >>,
      references |-> << "No Man's Sky crafting chain notes (internal summary)" >>,
      redditNotes |-> << "Community posts frequently suggest Living Glass as a safe early passive income path." >>,
      faq |-> << [question |-> "Is Living Glass better than random loot selling?",
            answer |-> "For many players, yes. A stable farm chain can outperform random loot runs in consistency."] >>,
      video |-> [mode |-> "storyboard",
                  title |-> "Living Glass farm layout walkthrough",
                  note |-> "In-app storyboard guide. No external video service required.",
                  segments |-> << [label |-> "00:00 - Base Layout",
                         detail |-> "Place biodomes/hydroponics in a tight loop near refiners and storage."],
                                 [label |-> "00:45 - Crop Balance",
                         detail |-> "Balance ingredient crops by bottleneck material rather than equal count."],
                                 [label |-> "01:20 - Batch Craft",
                         detail |-> "Harvest all, craft components first, then final Living Glass in one pass."] >>] ],
    [ id |-> "oxygen",
      title |-> "Oxygen",
      aliases |-> << "oxygen",
                   "o2",
                   "life support" >>,
      whereToFind |->
        "Gather from oxygen-rich flora, gas hotspots, and occasional market supply.",
      howToUse |->
        "Core utility resource for life support and several refining chains.",
      tips |-> << "Set up an oxygen extractor base as early infrastructure.",
                "Carry backup oxygen stacks before long expeditions." >>,
      references |-> << "Resource gathering notes (internal summary)" >>,
      redditNotes |-> << "Players commonly prioritize oxygen extraction as an early QoL base." >>,
      faq |-> << [question |-> "Should I buy oxygen or farm it?",
            answer |-> "Buying is fine short-term, but farming becomes more efficient once your base is established."] >> ],
    [ id |-> "sodium",
      title |-> "Sodium",
      aliases |-> << "sodium",
                   "hazard protection",
                   "yellow plants" >>,
      whereToFind |->
        "Readily harvested from yellow flora on many planets and sometimes purchased at stations or pilots.",
      howToUse |->
        "Primary hazard protection refill material.",
      tips |-> << "Keep one dedicated sodium stack in exosuit inventory at all times.",
                "Convert to Sodium Nitrate when needed for stronger refills." >>,
      references |-> << "Survival resource notes (internal summary)" >>,
      redditNotes |-> << "New-player guides repeatedly emphasize sodium as top-priority carry material." >>,
      faq |-> << [question |-> "How much sodium should I carry?",
            answer |-> "At least one full stack for exploration-heavy sessions, more for harsh biomes."] >> ],
    [ id |-> "salvaged-data",
      title |-> "Salvaged Data",
      aliases |-> << "salvaged data",
                   "technology modules",
                   "buried tech" >>,
      whereToFind |->
        "Dig up buried technology modules using the Analysis Visor and Terrain Manipulator.",
      howToUse |->
        "Spent at the Space Anomaly construction terminal to unlock base parts and tech.",
      tips |-> << "Scan while moving in a wide loop to chain buried tech finds quickly.",
                "Prioritize unlocks that improve power, storage, and farming first." >>,
      references |-> << "Base progression notes (internal summary)" >>,
      redditNotes |-> << "Community consensus: early Salvaged Data routes accelerate base progression heavily." >>,
      faq |-> << [question |-> "What should I unlock first with Salvaged Data?",
            answer |-> "Most players prioritize power generation, storage, and farming modules first."] >> ],
    [ id |-> "nanites",
      title |-> "Nanites",
      aliases |-> << "nanites",
                   "nanite clusters",
                   "upgrade currency" >>,
      whereToFind |->
        "Earned from scanning, missions, refining loops, and selling discovered data sources.",
      howToUse |->
        "Main currency for tech upgrades and class improvements.",
      tips |-> << "Stack mission board tasks that reward nanites.",
                "Use steady micro-loops instead of waiting for one big source." >>,
      references |-> << "Upgrade currency notes (internal summary)" >>,
      redditNotes |-> << "Frequent player advice is to combine mission rewards with refining side loops." >>,
      faq |-> << [question |-> "What is a beginner-friendly nanite loop?",
            answer |-> "Combine station missions with fast scan/refine cycles so progress continues while traveling."] >> ]
  >>

\* a score that adds 12 for every place of the entry's text where a query token stands
scoreEntryPerOccurrence(entry, query) ==
  LET normalizedQuery == normalizeForMatch(query)
      queryTokens == tokenize(query)
      titleScore == IF normalizeForMatch(entry.title) = normalizedQuery THEN 120 ELSE 0
      aliasScore == 80 * Cardinality({i \in 1..Len(entry.aliases) :
                           includes(normalizedQuery, normalizeForMatch(entry.aliases[i]))})
      searchable == entry.title \o " " \o join(entry.aliases, " ") \o " " \o entry.whereToFind
                      \o " " \o entry.howToUse \o " " \o join(entry.tips, " ")
      searchableTokens == tokenize(searchable)
      tokenScore == 12 * Cardinality({pair \in (1..Len(queryTokens)) \X (1..Len(searchableTokens)) :
                           queryTokens[pair[1]] = searchableTokens[pair[2]]})
  IN  titleScore + aliasScore + tokenScore

scoreEntry(entry, query) ==
  LET normalizedQuery == normalizeForMatch(query)
      queryTokens == tokenize(query)
      titleScore == IF normalizeForMatch(entry.title) = normalizedQuery THEN 120 ELSE 0
      aliasScore == 80 * Cardinality({i \in 1..Len(entry.aliases) :
                           includes(normalizedQuery, normalizeForMatch(entry.aliases[i]))})
      searchable == entry.title \o " " \o join(entry.aliases, " ") \o " " \o entry.whereToFind
                      \o " " \o entry.howToUse \o " " \o join(entry.tips, " ")
      searchableTokens == Range(tokenize(searchable))
      tokenScore == 12 * Cardinality({i \in 1..Len(queryTokens) :
                           queryTokens[i] \in searchableTokens})
  IN  titleScore + aliasScore + tokenScore

\* a card whose summary is the where-text in every mode
toSearchResultWhereSummary(entry, type) ==
  LET details ==
        join(<<"Where to find: " \o entry.whereToFind,
               "How to use: " \o entry.howToUse,
               "Tips:">>
             \o [i \in 1..Len(entry.tips) |-> "- " \o entry.tips[i]],
             "\n")
      card == [id |-> entry.id,
               title |-> entry.title,
               summary |-> entry.whereToFind,
               details |-> details,
               source |-> "NMS Local KB",
               references |-> entry.references,
               redditNotes |-> entry.redditNotes,
               faq |-> entry.faq]
  IN  IF Has(entry, "video") THEN card @@ [video |-> entry.video] ELSE card

toSearchResult(entry, type) ==
  LET summary == IF type = "where" THEN entry.whereToFind ELSE entry.howToUse
      details ==
        join(<<"Where to find: " \o entry.whereToFind,
               "How to use: " \o entry.howToUse,
               "Tips:">>
             \o [i \in 1..Len(entry.tips) |-> "- " \o entry.tips[i]],
             "\n")
      card == [id |-> entry.id,
               title |-> entry.title,
               summary |-> summary,
               details |-> details,
               source |-> "NMS Local KB",
               references |-> entry.references,
               redditNotes |-> entry.redditNotes,
               faq |-> entry.faq]
  IN  IF Has(entry, "video") THEN card @@ [video |-> entry.video] ELSE card

buildNoMatchResult(query, type) ==
  LET modeLabel == IF type = "where" THEN "where-to-find" ELSE "how-to"
  IN  [id |-> noMatchId(query),
       title |-> "No exact local match for \"" \o query \o "\" yet",
       summary |-> "Try a shorter name, singular form, or a nearby material/blueprint term.",
       details |->
         join(<<"The app is in local-only mode, so it only searches built-in data.",
                "Mode used: " \o modeLabel \o ".",
                "Suggested next tries:",
                "- Remove extra words (example: use \"radiant heart\" instead of full sentence).",
                "- Search by ingredient or output item.",
                "- Ask a follow-up question in this card so the app can guide alternatives.">>, "\n"),
       source |-> "NMS Local KB",
       references |-> <<"Local knowledge base only">>,
       redditNotes |-> <<"Reddit references are summarized in-app only; no outbound links are provided.">>,
       faq |-> <<[question |-> "Can I still use Reddit info without opening Reddit?",
                  answer |-> "Yes. The app can include summarized Reddit-derived notes inside result details."]>>]

\* a ranking that puts the lowest score first
curatedRankedAscending(query) ==
  LET all == [i \in 1..Len(LOCAL_KNOWLEDGE) |->
                [entry |-> LOCAL_KNOWLEDGE[i], score |-> scoreEntry(LOCAL_KNOWLEDGE[i], query)]]
      positive == SelectSeq(all, LAMBDA item : item.score > 0)
      sorted == SortDesc(positive, LAMBDA left, right : left.score < right.score)
  IN  slice0(sorted, MaxResults)

\* a ranking that keeps the entries that score 0
curatedRankedUnfiltered(query) ==
  LET all == [i \in 1..Len(LOCAL_KNOWLEDGE) |->
                [entry |-> LOCAL_KNOWLEDGE[i], score |-> scoreEntry(LOCAL_KNOWLEDGE[i], query)]]
      sorted == SortDesc(all, LAMBDA left, right : left.score > right.score)
  IN  slice0(sorted, MaxResults)

\* LOCAL_KNOWLEDGE.map(score).filter(score > 0).sort(desc).slice(0, 8)
curatedRanked(query) ==
  LET all == [i \in 1..Len(LOCAL_KNOWLEDGE) |->
                [entry |-> LOCAL_KNOWLEDGE[i], score |-> scoreEntry(LOCAL_KNOWLEDGE[i], query)]]
      positive == SelectSeq(all, LAMBDA item : item.score > 0)
      sorted == SortDesc(positive, LAMBDA left, right : left.score > right.score)
  IN  slice0(sorted, MaxResults)

curatedResults(ranked, query, type) ==
  LET scored == [i \in 1..Len(ranked) |-> toSearchResult(ranked[i].entry, type)]
  IN  IF Len(scored) > 0 THEN scored ELSE <<buildNoMatchResult(query, type)>>

(***************************************************************************)
(* The page: result keys and the follow-up dispatcher                      *)
(***************************************************************************)

getResultKey(result) == result.source \o "::" \o result.id

normalize(value) ==
  ApplyTo(nonAlnumToSpace(toLowerCase(value)), LAMBDA spaced :
    trim(collapseWhitespace(spaced)))

\* new Set(normalize(a).split(" ").filter((token) => token.length > 1))
keywordSet(a) ==
  {token \in Range(split(normalize(a), " ")) : Len(token) > 1}

keywordOverlap(a, b) ==
  ApplyTo(keywordSet(b), LAMBDA right :
    Cardinality({token \in keywordSet(a) : token \in right}))

\* result.details.split("\n").filter((line) => line.startsWith("- "))
bulletLines(details) ==
  SelectSeq(split(details, "\n"), LAMBDA line : startsWith(line, "- "))

\* q.includes(w) for some w of words
includesAny(q, words) == \E w \in words : includes(q, w)

\* a fallback that answers with the first FAQ entry whatever its overlap
faqOrGenericFirstFaq(result, question, history) ==
  IF Len(result.faq) > 0 THEN result.faq[1].answer
  ELSE "From this result:\n" \o result.summary

\* the last two branches of buildFollowUpAnswer: the best FAQ entry, else the
\* generic answer (the apostrophe of the source's prompt is written in ASCII)
faqOrGenericAnswer(result, question, history) ==
  ApplyTo(SortDesc(SubSeq([i \in 1..Len(result.faq) |->
                             [item |-> result.faq[i],
                              score |-> keywordOverlap(question, result.faq[i].question)]],
                          1, Len(result.faq)),
                   LAMBDA a, b : a.score > b.score), LAMBDA ranking :
    IF Len(ranking) > 0 /\ ranking[1].score > 0
    THEN ranking[1].item.answer
    ELSE "From this result:\n" \o result.summary
           \o (IF Len(result.references) > 0
               THEN "\n\nReference notes:\n- " \o join(result.references, "\n- ")
               ELSE "")
           \o "\n\n"
           \o (IF \E i \in 1..Len(history) : history[i].role = "user"
               THEN "If you want, ask a narrower follow-up (example: fastest route, required gear, or inventory prep)."
               ELSE "Ask another question about route, gear prep, or quickest method and I'll narrow this down."))

\* a dispatcher that looks for a tip word first
buildFollowUpAnswerTipsFirst(result, question, history) ==
  IF includesAny(normalize(question), {"tip", "best", "fast", "efficient"})
  THEN "Top tips:\n" \o join(slice0(bulletLines(result.details), 2), "\n")
  ELSE faqOrGenericAnswer(result, question, history)

buildFollowUpAnswer(result, question, history) ==
  ApplyTo(normalize(question), LAMBDA q :
    IF includesAny(q, {"where", "find", "location"})
    THEN "Where-to-find summary:\n" \o split(result.details, "\n")[1]
    ELSE IF includesAny(q, {"how", "use", "craft", "build"})
    THEN ApplyTo(SelectSeq(split(result.details, "\n"),
                           LAMBDA line : startsWith(toLowerCase(line), "how to use:")),
                 LAMBDA howLines :
           IF Len(howLines) > 0 THEN howLines[1]
           ELSE "This entry includes how-to guidance in the details section above.")
    ELSE IF /\ includesAny(q, {"tip", "best", "fast", "efficient"})
            /\ Len(bulletLines(result.details)) > 0
    THEN "Top tips:\n" \o join(slice0(bulletLines(result.details), 2), "\n")
    ELSE IF includes(q, "reddit")
    THEN (IF Len(result.redditNotes) = 0
          THEN "This entry has no Reddit-derived notes yet."
          ELSE "Reddit references are summarized in-app only:\n"
                 \o join([i \in 1..Len(result.redditNotes) |-> "- " \o result.redditNotes[i]], "\n"))
    ELSE IF includesAny(q, {"video", "watch"})
    THEN (IF Has(result, "video")
          THEN "Open the video guide section in this card. It uses a local storyboard format and stays fully in-app."
          ELSE "This entry does not have a curated video clip yet, but I can still help with text guidance from this card.")
    ELSE faqOrGenericAnswer(result, question, history))

(***************************************************************************)
(* Requests and retrieved listings                                         *)
(***************************************************************************)

\* the q parameter of a request, when it has one
QueryTexts ==
  {"", "   ", "heart", " radiant heart ", "heart farm guide", "?", "www.a"}

\* a request is its search parameters: q and type are each present or absent
Requests ==
  LET qs == {EmptyObject} \cup {[q |-> text] : text \in QueryTexts}
      ts == {EmptyObject} \cup {[type |-> t] : t \in {"where", "howto"}}
  IN  {a @@ b : a \in qs, b \in ts}

\* the children of one listing the discussion source may return, in
\* retrieval order
Listing ==
  << [data |-> [id |-> "d", title |-> "HEART FARM!", score |-> 0, num_comments |-> 0]],
     [data |-> [id |-> "a", title |-> "Heart farm", score |-> 5, num_comments |-> 3]],
     [data |-> [id |-> "e", title |-> "Heart guide", score |-> 5, num_comments |-> 3]],
     [data |-> [id |-> "b", title |-> "www.heart farm", score |-> 99, num_comments |-> 0]],
     [data |-> [id |-> "c", title |-> "www.heart farm", score |-> 98, num_comments |-> 0]],
     [data |-> [id |-> "h", title |-> "Heart update"]],
     [data |-> [id |-> "g", title |-> "Heart stuff", score |-> 5]],
     [data |-> [id |-> "f", title |-> "Sentinel loot", selftext |-> "radiant heart drop",
                author |-> "bob", subreddit_name_prefixed |-> "r/NoMansSkyTheGame"]],
     [data |-> [id |-> "i", title |-> "?!", score |-> 1]],
     [data |-> [id |-> "j", title |-> "!!!", score |-> 50]],
     [data |-> [id |-> "k", title |-> "Heart ht*tp://x.y", selftext |-> "see www|.a"]],
     [kind |-> "t3"],
     [data |-> [id |-> "n"]],
     [data |-> [title |-> "Heart farm route", score |-> 40]],
     [data |-> [id |-> "l", title |-> "Radiant heart route", score |-> 12]],
     [data |-> [id |-> "m", title |-> "Glass heart", score |-> 2]],
     [data |-> [id |-> "o", title |-> "Heart tips", score |-> 7]],
     [data |-> [id |-> "p", title |-> "Big heart", score |-> 3]] >>

\* the longest run of the listing returned short of the whole
MaxPosts == 3

\* the bodies the source may answer with: the whole listing, a run of it, an
\* empty listing, or an object without a listing
Payloads ==
  {[data |-> [children |-> Listing]], [data |-> EmptyObject], [message |-> "Forbidden"]}
    \cup UNION {{[data |-> [children |-> SubSeq(Listing, i, i + n - 1)]] :
                   n \in 0..Min(MaxPosts, Len(Listing) - i + 1)} : i \in 1..Len(Listing)}

(***************************************************************************)
(* The two GET handlers as a state machine.  One request is followed from  *)
(* its arrival to its response.  The curated handler never suspends and is *)
(* one step; the live handler suspends in fetchRedditPosts, at the fetch   *)
(* and at the reading of the body, where the timer may fire.               *)
(***************************************************************************)

VARIABLES
  route,            \* "none", "curated" or "live": the handler the request went to
  request,          \* the search parameters of the request
  pc,               \* "idle", "fetching", "reading" or "done"
  query,            \* const query: the trimmed q parameter
  type,             \* const type
  queryTokens,      \* const queryTokens (live)
  timer,            \* the timeout of fetchRedditPosts: "unset", "armed", "fired", "cleared"
  aborted,          \* controller.signal.aborted
  fetchCalls,       \* the number of fetch calls made for the request
  outcome,          \* how fetchRedditPosts ended
  redditPayload,    \* const redditPayload
  scored,           \* the well-formed posts with their scores (live, after the map)
  admitted,         \* after the admission filter
  sorted,           \* after the sort
  dedupedRanked,    \* const dedupedRanked
  ranked,           \* the scored entries the curated handler keeps, in order
  response,         \* the response of the handler
  results,          \* the page's results state
  expandedResultKeys,   \* the page's expanded cards, in the order they were expanded
  chatByResultKey,  \* the page's chat histories
  chatInputByResultKey, \* the page's follow-up inputs
  isLoading,        \* the page's isLoading state
  error,            \* the page's error state: null or a message
  onSearchPc,       \* where onSearch stands: "idle", "fetching" or "reading"
  params,           \* const params of the onSearch in flight
  searchPayload,    \* const payload of onSearch: the body it read last
  favorites,        \* the page's favorites state
  localStorage,     \* window.localStorage: the items by key
  mountPc,          \* the mount of Home: "rendered", "flushed" or "settled"
  queuedFavorites,  \* the setFavorites calls the next render has to apply
  persistPending,   \* a render changed favorites and its persist effect has not run
  loadedStorage,    \* window.localStorage as the page load found it
  call,             \* a function called on its own: its name and its arguments
  returned          \* what that call returned

serverVars ==
  <<route, request, pc, query, type, queryTokens, timer, aborted, fetchCalls, outcome,
    redditPayload, scored, admitted, sorted, dedupedRanked, ranked, response>>

pageVars == <<results, expandedResultKeys, chatByResultKey, chatInputByResultKey>>

callVars == <<call, returned>>

searchVars == <<isLoading, error, onSearchPc, params, searchPayload>>

favoriteVars ==
  <<favorites, localStorage, mountPc, queuedFavorites, persistPending, loadedStorage>>

homeVars == <<searchVars, favoriteVars>>

vars == <<serverVars, pageVars, callVars, homeVars>>

\* no response yet
NoResponse == [status |-> 0]

\* NextResponse.json({ error: "Missing query." }, { status: 400 })
BadRequest == [status |-> 400, body |-> [error |-> "Missing query."]]

\* NextResponse.json({ query, type, results })
OkResponse(q, t, cards) == [status |-> 200, body |-> [query |-> q, type |-> t, results |-> cards]]

\* !query, for query = request.nextUrl.searchParams.get("q")?.trim()
isMissingQueryUntrimmed(req) == ~Has(req, "q") \/ req.q = ""

isMissingQuery(req) == ~Has(req, "q") \/ trim(req.q) = ""

\* typeParam === "where" ? "where" : "howto"
typeOf(req) == IF Has(req, "type") /\ req.type = "where" THEN "where" ELSE "howto"

\* a clearTimeout that cancels nothing
keepTimeout(t) == t

\* clearTimeout(timeout): a timer that has fired stays fired
clearTimeout(t) == IF t = "armed" THEN "cleared" ELSE t

ServerIdle ==
  /\ route = "none"
  /\ request = EmptyObject
  /\ pc = "idle"
  /\ query = ""
  /\ type = "howto"
  /\ queryTokens = << >>
  /\ timer = "unset"
  /\ aborted = FALSE
  /\ fetchCalls = 0
  /\ outcome = "none"
  /\ redditPayload = EmptyObject
  /\ scored = << >>
  /\ admitted = << >>
  /\ sorted = << >>
  /\ dedupedRanked = << >>
  /\ ranked = << >>
  /\ response = NoResponse

PageEmpty ==
  /\ results = << >>
  /\ expandedResultKeys = << >>
  /\ chatByResultKey = << >>
  /\ chatInputByResultKey = << >>

\* the null of the error state, apart from every message
null == "(null)"

\* the first render of Home: nothing loading, no error, no favorites, the
\* effects of the mount not yet run; the browser holds no item
HomeRendered ==
  /\ isLoading = FALSE
  /\ error = null
  /\ onSearchPc = "idle"
  /\ params = EmptyObject
  /\ searchPayload = EmptyObject
  /\ favorites = << >>
  /\ localStorage = EmptyObject
  /\ mountPc = "rendered"
  /\ queuedFavorites = << >>
  /\ persistPending = FALSE
  /\ loadedStorage = EmptyObject

\* no function has been called on its own
NoCall == EmptyObject

CallIdle ==
  /\ call = NoCall
  /\ returned = NoCall

Init == ServerIdle /\ PageEmpty /\ CallIdle /\ HomeRendered

\* the curated GET
GETCurated(req) ==
  /\ pc = "idle"
  /\ route' = "curated"
  /\ request' = req
  /\ pc' = "done"
  /\ IF isMissingQuery(req)
     THEN /\ response' = BadRequest
          /\ UNCHANGED <<query, type, ranked>>
     ELSE /\ query' = trim(req.q)
          /\ type' = typeOf(req)
          /\ ranked' = curatedRanked(query')
          /\ response' = OkResponse(query', type', curatedResults(ranked', query', type'))
  /\ UNCHANGED <<queryTokens, timer, aborted, fetchCalls, outcome, redditPayload,
                 scored, admitted, sorted, dedupedRanked, pageVars, callVars, homeVars>>

\* the live GET up to the fetch: the validation, then fetchRedditPosts up to
\* its first await
GETLive(req) ==
  /\ pc = "idle"
  /\ route' = "live"
  /\ request' = req
  /\ IF isMissingQuery(req)
     THEN /\ response' = BadRequest
          /\ pc' = "done"
          /\ UNCHANGED <<query, type, queryTokens, timer, fetchCalls>>
     ELSE /\ query' = trim(req.q)
          /\ type' = typeOf(req)
          /\ queryTokens' = tokenizeLive(query')
          /\ timer' = "armed"
          /\ fetchCalls' = fetchCalls + 1
          /\ pc' = "fetching"
          /\ UNCHANGED response
  /\ UNCHANGED <<aborted, outcome, redditPayload, scored, admitted, sorted,
                 dedupedRanked, ranked, pageVars, callVars, homeVars>>

\* fetchRedditPosts returns payload (its finally clause runs), and the GET runs to
\* its response
Finish(payload, how) ==
  /\ timer' = clearTimeout(timer)
  /\ outcome' = how
  /\ redditPayload' = payload
  /\ scored' = scoredItems(redditPayload', queryTokens, type)
  /\ admitted' = admittedItems(scored', queryTokens)
  /\ sorted' = sortByQuality(admitted')
  /\ dedupedRanked' = dedupeByTitle(sorted')
  /\ response' = OkResponse(query, type, liveResults(dedupedRanked', query, type))
  /\ pc' = "done"
  /\ UNCHANGED <<route, request, query, type, queryTokens, aborted, fetchCalls, ranked, pageVars, callVars, homeVars>>

\* the fetch resolves with a response
FetchResponds(ok) ==
  /\ pc = "fetching"
  /\ ~aborted
  /\ IF ok
     THEN /\ pc' = "reading"
          /\ UNCHANGED <<route, request, query, type, queryTokens, timer, aborted,
                         fetchCalls, outcome, redditPayload, scored, admitted, sorted,
                         dedupedRanked, ranked, response, pageVars, callVars, homeVars>>
     ELSE Finish(EmptyObject, "non-ok")

\* the fetch rejects (network failure)
FetchThrows ==
  /\ pc = "fetching"
  /\ ~aborted
  /\ Finish(EmptyObject, "throw")

\* response.json() resolves
JsonParsed(payload) ==
  /\ pc = "reading"
  /\ ~aborted
  /\ Finish(payload, "ok")

\* response.json() rejects
JsonFails ==
  /\ pc = "reading"
  /\ ~aborted
  /\ Finish(EmptyObject, "unparsable")

\* the timeout callback: controller.abort()
TimerFires ==
  /\ timer = "armed"
  /\ timer' = "fired"
  /\ aborted' = TRUE
  /\ UNCHANGED <<route, request, pc, query, type, queryTokens, fetchCalls, outcome,
                 redditPayload, scored, admitted, sorted, dedupedRanked, ranked,
                 response, pageVars, callVars, homeVars>>

\* the pending fetch or body read rejects with the abort
AbortRejects ==
  /\ pc \in {"fetching", "reading"}
  /\ aborted
  /\ Finish(EmptyObject, "timeout")

Next ==
  \/ \E req \in Requests : GETCurated(req)
  \/ \E req \in Requests : GETLive(req)
  \/ \E ok \in BOOLEAN : FetchResponds(ok)
  \/ FetchThrows
  \/ \E payload \in Payloads : JsonParsed(payload)
  \/ JsonFails
  \/ TimerFires
  \/ AbortRejects

Spec == Init /\ [][Next]_vars

\* the timer fires unless it is cleared first, and an aborted fetch rejects
FairSpec == Spec /\ WF_vars(TimerFires) /\ WF_vars(AbortRejects)
(***************************************************************************)
(* The page as a state machine: a search loads a list of cards, a card is  *)
(* expanded, its follow-up input is typed into and submitted.              *)
(***************************************************************************)

\* the cards the live GET answers with for payload
liveCardsFor(payload, q, t) ==
  ApplyTo(tokenizeLive(q), LAMBDA tokens :
    liveResults(dedupeByTitle(sortByQuality(
      admittedItems(scoredItems(payload, tokens, t), tokens))), q, t))

\* a card of another shape than the two routes build: no bulleted line, no
\* notes, no FAQ (the page takes the response body as it comes)
PlainCard ==
  [id |-> "note", title |-> "Note", summary |-> "A plain note.",
   details |-> "Where to find: nowhere yet", source |-> "Other",
   references |-> << >>, redditNotes |-> << >>, faq |-> << >>]

\* the bodies an OK response to the page's search may carry
SearchBodies ==
  { OkResponse("radiant heart", "where",
               curatedResults(curatedRanked("radiant heart"), "radiant heart", "where")).body,
    OkResponse("zzz", "howto", curatedResults(curatedRanked("zzz"), "zzz", "howto")).body,
    OkResponse("heart", "howto",
               liveCardsFor([data |-> [children |-> SubSeq(Listing, 14, 14)]],
                            "heart", "howto")).body,
    [results |-> <<PlainCard>>],
    [query |-> "heart", type |-> "howto"] }

\* what the user may type into a follow-up input
FollowUpTexts ==
  { "where is the best tip to find this",
    "How to craft?",
    "best tip",
    "any reddit notes",
    "watch the video",
    "fast video",
    "specific biome",
    "  " }

\* the number of questions followed in one card's chat
MaxQuestions == 2

\* { ...current, [key]: value }
Put(current, key, value) ==
  [k \in DOMAIN current \cup {key} |-> IF k = key THEN value ELSE current[k]]

\* what is typed into the search input when the form is submitted
TypedQueries == {"", "  ", " heart "}

SearchTypes == {"where", "howto"}

\* onSearch up to its first await; the submit button is disabled while
\* isLoading.  typedQuery and searchType are the form's fields at the submit.
onSearch(typedQuery, searchType) ==
  /\ ~isLoading
  /\ onSearchPc = "idle"
  /\ IF trim(typedQuery) = ""
     THEN /\ error' = "Enter a search term first."
          /\ results' = << >>
          /\ UNCHANGED <<isLoading, onSearchPc, params>>
     ELSE /\ error' = null
          /\ isLoading' = TRUE
          /\ params' = [q |-> trim(typedQuery), type |-> searchType]
          /\ onSearchPc' = "fetching"
          /\ UNCHANGED results
  /\ UNCHANGED <<expandedResultKeys, chatByResultKey, chatInputByResultKey, searchPayload,
                 favoriteVars, serverVars, callVars>>

\* the finally clause of onSearch, and its return
onSearchEnds ==
  /\ isLoading' = FALSE
  /\ onSearchPc' = "idle"
  /\ params' = EmptyObject

\* onSearch, from the OK response on: payload.results ?? [], and the card state is reset
onSearchLoaded(body) ==
  /\ searchPayload' = body
  /\ results' = OrElse(searchPayload', "results", << >>)
  /\ expandedResultKeys' = << >>
  /\ chatByResultKey' = EmptyObject
  /\ chatInputByResultKey' = EmptyObject
  /\ onSearchEnds
  /\ UNCHANGED <<error, favoriteVars, serverVars, callVars>>

\* a catch clause that leaves the results
onSearchFailedKeepsResults ==
  /\ error' = "Could not load live results right now."
  /\ onSearchEnds
  /\ UNCHANGED <<results, expandedResultKeys, chatByResultKey, chatInputByResultKey,
                 searchPayload,
                 favoriteVars, serverVars, callVars>>

\* the catch clause of onSearch: a non-OK response, a failed fetch or an
\* unreadable body
onSearchFailed ==
  /\ error' = "Could not load live results right now."
  /\ results' = << >>
  /\ onSearchEnds
  /\ UNCHANGED <<expandedResultKeys, chatByResultKey, chatInputByResultKey, searchPayload,
                 favoriteVars, serverVars, callVars>>

\* the fetch of onSearch resolves with a response
SearchResponds(ok) ==
  /\ onSearchPc = "fetching"
  /\ IF ok
     THEN /\ onSearchPc' = "reading"
          /\ UNCHANGED <<isLoading, error, params, searchPayload, pageVars, favoriteVars,
                         serverVars, callVars>>
     ELSE onSearchFailed

\* the fetch of onSearch rejects
SearchThrows ==
  /\ onSearchPc = "fetching"
  /\ onSearchFailed

\* response.json() of onSearch resolves
SearchJsonParsed(body) ==
  /\ onSearchPc = "reading"
  /\ onSearchLoaded(body)

\* response.json() of onSearch rejects
SearchJsonFails ==
  /\ onSearchPc = "reading"
  /\ onSearchFailed

toggleExpanded(result) ==
  /\ expandedResultKeys' =
       IF getResultKey(result) \in Range(expandedResultKeys)
       THEN SelectSeq(expandedResultKeys, LAMBDA item : item # getResultKey(result))
       ELSE Append(expandedResultKeys, getResultKey(result))
  /\ UNCHANGED <<results, chatByResultKey, chatInputByResultKey, serverVars, callVars, homeVars>>

\* the follow-up form is rendered in an expanded card
isExpanded(result) == getResultKey(result) \in Range(expandedResultKeys)

\* onChange of the follow-up input of a card
onChangeFollowUp(result, text) ==
  /\ isExpanded(result)
  /\ chatInputByResultKey' = Put(chatInputByResultKey, getResultKey(result), text)
  /\ UNCHANGED <<results, expandedResultKeys, chatByResultKey, serverVars, callVars, homeVars>>

userMessages(history) == Cardinality({i \in 1..Len(history) : history[i].role = "user"})

\* a history that keeps nothing but the latest exchange
nextHistoryReplaced(previousHistory, rawQuestion, answer) ==
  <<[role |-> "user", text |-> rawQuestion], [role |-> "assistant", text |-> answer]>>

\* nextHistory: the previous turns, then the question and the answer
nextHistory(previousHistory, rawQuestion, answer) ==
  previousHistory \o
    <<[role |-> "user", text |-> rawQuestion], [role |-> "assistant", text |-> answer]>>

submitFollowUp(result) ==
  /\ isExpanded(result)
  /\ LET key == getResultKey(result)
         rawQuestion == trim(OrElse(chatInputByResultKey, key, ""))
         previousHistory == OrElse(chatByResultKey, key, << >>)
     IN  IF rawQuestion = ""
         THEN UNCHANGED <<chatByResultKey, chatInputByResultKey>>
         ELSE /\ userMessages(previousHistory) < MaxQuestions
              /\ chatByResultKey' =
                   Put(chatByResultKey, key,
                       nextHistory(previousHistory, rawQuestion,
                                   buildFollowUpAnswer(result, rawQuestion, previousHistory)))
              /\ chatInputByResultKey' = Put(chatInputByResultKey, key, "")
  /\ UNCHANGED <<results, expandedResultKeys, serverVars, callVars, homeVars>>

PageNext ==
  \/ \E typedQuery \in TypedQueries, searchType \in SearchTypes : onSearch(typedQuery, searchType)
  \/ \E ok \in BOOLEAN : SearchResponds(ok)
  \/ SearchThrows
  \/ \E payload \in SearchBodies : SearchJsonParsed(payload)
  \/ SearchJsonFails
  \/ \E i \in 1..Len(results) : toggleExpanded(results[i])
  \/ \E i \in 1..Len(results), text \in FollowUpTexts : onChangeFollowUp(results[i], text)
  \/ \E i \in 1..Len(results) : submitFollowUp(results[i])

PageSpec == Init /\ [][PageNext]_vars

\* the fetch of onSearch settles, and so does the reading of its body: one
\* that nothing else settles is rejected in the end
PageFairSpec ==
  /\ PageSpec
  /\ WF_vars(SearchThrows)
  /\ WF_vars(SearchJsonFails)

(***************************************************************************)
(* The favorites of the page: the list in memory, the item the browser     *)
(* keeps, the two effects of Home, and the reload of the page.  The passive *)
(* effects of one commit run together, in the order they are declared; the *)
(* state they set is applied by the render that follows.                   *)
(***************************************************************************)

FAVORITES_STORAGE_KEY == "nms-companion-favorites"

\* JSON.stringify(value): the text of a value made of strings, arrays and
\* objects is kept as the value it denotes
JSONstringify(value) == [json |-> value]

\* JSON.parse(text) does not throw
isJSON(text) == Has(text, "json")

JSONparse(text) == text.json

\* window.localStorage.setItem(key, value)
setItem(storage, key, value) == Put(storage, key, value)

\* the load effect: the setFavorites calls queued after it ran on storage
loadEffect(storage, queued) ==
  IF ~Has(storage, FAVORITES_STORAGE_KEY) THEN queued
  ELSE IF isJSON(storage[FAVORITES_STORAGE_KEY])
       THEN Append(queued, JSONparse(storage[FAVORITES_STORAGE_KEY]))
       ELSE Append(queued, << >>)

\* the persist effect: the storage after it ran for the favorites of its render
persistEffect(storage, current) ==
  setItem(storage, FAVORITES_STORAGE_KEY, JSONstringify(current))

\* the effects of the mount, run once, and once more under Strict Mode
RECURSIVE mountEffects(_, _, _, _)
mountEffects(storage, queued, current, runs) ==
  IF runs = 0 THEN [storage |-> storage, queued |-> queued]
  ELSE mountEffects(persistEffect(storage, current), loadEffect(storage, queued),
                    current, runs - 1)

\* the passive effects of the first commit of Home.  runs is 1 in a
\* production build and 2 in a development build, where Strict Mode runs
\* the effects of a mount a second time.
MountEffects(runs) ==
  /\ mountPc = "rendered"
  /\ localStorage' = mountEffects(localStorage, queuedFavorites, favorites, runs).storage
  /\ queuedFavorites' = mountEffects(localStorage, queuedFavorites, favorites, runs).queued
  /\ mountPc' = "flushed"
  /\ UNCHANGED <<favorites, persistPending, loadedStorage, searchVars, pageVars,
                 serverVars, callVars>>

\* the render after the mount effects: the queued setFavorites calls are
\* applied in order, and the persist effect is due if there was one
Rerender ==
  /\ mountPc = "flushed"
  /\ favorites' = IF Len(queuedFavorites) > 0
                  THEN queuedFavorites[Len(queuedFavorites)]
                  ELSE favorites
  /\ persistPending' = (Len(queuedFavorites) > 0)
  /\ queuedFavorites' = << >>
  /\ mountPc' = "settled"
  /\ UNCHANGED <<localStorage, loadedStorage, searchVars, pageVars, serverVars, callVars>>

\* the persist effect of a render that changed favorites
PersistEffect ==
  /\ mountPc = "settled"
  /\ persistPending
  /\ localStorage' = persistEffect(localStorage, favorites)
  /\ persistPending' = FALSE
  /\ UNCHANGED <<favorites, mountPc, queuedFavorites, loadedStorage, searchVars, pageVars,
                 serverVars, callVars>>

\* an updater that adds the card whether it is there or not
toggledAlwaysAdded(current, result) == <<result>> \o current

\* the updater of toggleFavorite
toggled(current, result) ==
  IF \E i \in 1..Len(current) : getResultKey(current[i]) = getResultKey(result)
  THEN SelectSeq(current, LAMBDA item : getResultKey(item) # getResultKey(result))
  ELSE <<result>> \o current

\* the longest list of favorites followed
MaxFavorites == 2

\* toggleFavorite of a card that is shown; a persist effect still due runs
\* before the new render
toggleFavorite(result) ==
  /\ mountPc = "settled"
  /\ Len(toggled(favorites, result)) <= MaxFavorites
  /\ favorites' = toggled(favorites, result)
  /\ localStorage' = IF persistPending THEN persistEffect(localStorage, favorites)
                     ELSE localStorage
  /\ persistPending' = TRUE
  /\ UNCHANGED <<mountPc, queuedFavorites, loadedStorage, searchVars, pageVars,
                 serverVars, callVars>>

\* the cards with a Save, Saved or Remove button
ShownCards == Range(results) \cup Range(favorites)

\* the page is loaded again: the state of Home is its initial state, and the
\* browser keeps its storage
Reload ==
  /\ mountPc # "rendered"
  /\ results' = << >>
  /\ expandedResultKeys' = << >>
  /\ chatByResultKey' = << >>
  /\ chatInputByResultKey' = << >>
  /\ isLoading' = FALSE
  /\ error' = null
  /\ onSearchPc' = "idle"
  /\ params' = EmptyObject
  /\ searchPayload' = EmptyObject
  /\ favorites' = << >>
  /\ mountPc' = "rendered"
  /\ queuedFavorites' = << >>
  /\ persistPending' = FALSE
  /\ loadedStorage' = localStorage
  /\ UNCHANGED <<localStorage, serverVars, callVars>>

\* the bodies the searches of a session with favorites are answered with
FavoriteBodies ==
  { OkResponse("zzz", "howto", curatedResults(curatedRanked("zzz"), "zzz", "howto")).body,
    OkResponse("o2 farm", "howto",
               curatedResults(curatedRanked("o2 farm"), "o2 farm", "howto")).body }

FavoritesNext ==
  \/ \E runs \in {1, 2} : MountEffects(runs)
  \/ Rerender
  \/ PersistEffect
  \/ \E result \in ShownCards : toggleFavorite(result)
  \/ Reload
  \/ \E typedQuery \in TypedQueries, searchType \in SearchTypes : onSearch(typedQuery, searchType)
  \/ \E ok \in BOOLEAN : SearchResponds(ok)
  \/ SearchThrows
  \/ \E payload \in FavoriteBodies : SearchJsonParsed(payload)
  \/ SearchJsonFails

\* the effects and the render they ask for are run
FavoritesSpec ==
  /\ Init
  /\ [][FavoritesNext]_vars
  /\ WF_vars(\E runs \in {1, 2} : MountEffects(runs))
  /\ WF_vars(Rerender)
  /\ WF_vars(PersistEffect)

(***************************************************************************)
(* Single calls: one function of the two routes, or the curated handler,   *)
(* is called once with arguments from a pool.                              *)
(***************************************************************************)

\* fn is called with args and returns value
Called(fn, args, value) ==
  /\ pc = "idle"
  /\ call = NoCall
  /\ call' = [fn |-> fn] @@ args
  /\ returned' = value
  /\ UNCHANGED <<serverVars, pageVars, homeVars>>

\* queries of which several normalize to the same text, or to the empty text
NoMatchQueries ==
  { "radiant heart", "Radiant Heart", "RADIANT-HEART!", " radiant   heart ",
    "o2", "O2?", "?", "!!", "a b" }

\* buildNoMatchResult of either route
CallBuildNoMatchResult(handler, q, t) ==
  Called("buildNoMatchResult", [handler |-> handler, query |-> q, type |-> t],
         IF handler = "live" THEN buildNoMatchResultLive(q, t) ELSE buildNoMatchResult(q, t))

\* queries for the curated table: titles, aliases, words of the texts, a word
\* typed twice, and queries that match nothing
CuratedQueries ==
  { "Radiant Heart", "radiant hearts", "heart heart", "nanites", "o2 farm", "Oxygen",
    "sodium oxygen", "zzz", "a", "farm income", "LIVING  GLASS!", "Salvaged Data",
    "farm", "and", "life support", "?" }

\* scoreEntry
CallScoreEntry(entry, q) ==
  Called("scoreEntry", [entry |-> entry, query |-> q], scoreEntry(entry, q))

\* requests to the curated handler: the type parameter absent, a mode, or
\* another value
CuratedRequests ==
  {[q |-> text] @@ b :
     text \in CuratedQueries,
     b \in {EmptyObject, [type |-> "where"], [type |-> "howto"], [type |-> "WHERE"]}}

\* texts with bare links, markdown links, links in capitals, a prefix with
\* nothing after it, and brackets around a bare link
LinkTexts ==
  { "plain text", "see http://a.b now", "[x](https://y.z) ok", "www.a", "HTTP://A b",
    "www. x", "a [b](www.c d) e", "at  www.x.y  and  https://z", "[a www.] b](www. c)",
    "http://", "x[y]" }

\* stripExternalLinks
CallStripExternalLinks(text) ==
  Called("stripExternalLinks", [value |-> text], stripExternalLinks(text))

\* posts for the scorer: titles with and without words of the meta vocabulary,
\* in the singular and the plural, and engagement that is absent, negative,
\* zero and positive
ScoredPosts ==
  { [id |-> "s1", title |-> "Heart farm"],
    [id |-> "s2", title |-> "Heart farm", score |-> 0, num_comments |-> 0],
    [id |-> "s3", title |-> "Heart farm", score |-> 1, num_comments |-> 0],
    [id |-> "s4", title |-> "Heart farm", score |-> 0 - 5, num_comments |-> 2],
    [id |-> "s5", title |-> "Heart farm", score |-> 6, num_comments |-> 3],
    [id |-> "s6", title |-> "Heart update", score |-> 6, num_comments |-> 3],
    [id |-> "s7", title |-> "Heart updates", score |-> 6, num_comments |-> 3],
    [id |-> "s8", title |-> "Heart impressions", score |-> 6, num_comments |-> 3],
    [id |-> "s9", title |-> "Expedition photo: heart", selftext |-> "A review.", score |-> 98],
    [id |-> "s10", title |-> "Updated heart route", num_comments |-> 4] }

\* queries for the scorer, with and without words of the meta vocabulary
ScoredQueries ==
  { "heart", "heart update", "first impressions", "heart photos", "expedition", "?" }

\* scoreRedditPost, for the tokens of a query
CallScoreRedditPost(post, q, t) ==
  Called("scoreRedditPost",
         [post |-> post, query |-> q, queryTokens |-> tokenizeLive(q), type |-> t],
         scoreRedditPost(post, tokenizeLive(q), t))

\* sentence lists for the summarizer: none, one without a keyword, some with
\* keywords of one or two groups among others without
SentenceLists ==
  { << >>,
    <<"Plain one.">>,
    <<"Plain one.", "Find it.", "Plain two.">>,
    <<"Plain one.", "Find the planet.", "Plain two.", "Farm and find drops.",
      "Where is the station?">>,
    <<"Best tip: farm fast.", "Use the best route.", "Carry more.", "Plain two.">>,
    <<"Plain one.", "Plain two.", "Plain three.", "Plain four.">> }

\* the keyword groups toSearchResultFromReddit selects with
KeywordGroupSets ==
  { << <<"where", "find", "found", "location", "planet", "system", "station", "biome">>,
       <<"farm", "drop", "spawn", "sentinel", "anomaly", "vendor", "market">> >>,
    << <<"how", "use", "craft", "build", "route", "method", "loop">>,
       <<"tip", "best", "fast", "efficient", "priority", "upgrade">> >>,
    << <<"tip", "best", "fast", "efficient", "carry", "stack", "prioritize", "avoid">> >> }

\* the greatest count pickBestSentences is called with
MaxCount == 3

\* pickBestSentences
CallPickBestSentences(sentences, keywordGroups, count) ==
  Called("pickBestSentences",
         [sentences |-> sentences, keywordGroups |-> keywordGroups,
          fallback |-> "Keep route loops short.", count |-> count],
         pickBestSentences(sentences, keywordGroups, "Keep route loops short.", count))

\* the cards a follow-up is asked about: a curated card with two FAQ
\* entries, the curated no-match card with one, and a card with none
FollowUpCards ==
  { toSearchResult(LOCAL_KNOWLEDGE[1], "howto"),
    buildNoMatchResult("zzz", "howto"),
    PlainCard }

\* the questions asked
FollowUpQuestions ==
  { "radiant hearts", "Specific biome?", "need radiant", "farm radiant hearts",
    "rare drop", "a I", "What is it?", "can I still info", "best biome", "where" }

\* the history of the card's chat when the question is asked
FollowUpHistories ==
  { << >>,
    <<[role |-> "user", text |-> "rare drop"],
      [role |-> "assistant", text |-> "From this result:"]>> }

CallBuildFollowUpAnswer(result, question, history) ==
  Called("buildFollowUpAnswer",
         [result |-> result, question |-> question, history |-> history],
         buildFollowUpAnswer(result, question, history))

CallNext ==
  \/ \E req \in CuratedRequests : call = NoCall /\ GETCurated(req)
  \/ \E result \in FollowUpCards, question \in FollowUpQuestions, history \in FollowUpHistories :
       CallBuildFollowUpAnswer(result, question, history)
  \/ \E sentences \in SentenceLists, groups \in KeywordGroupSets, count \in 1..MaxCount :
       CallPickBestSentences(sentences, groups, count)
  \/ \E post \in ScoredPosts, q \in ScoredQueries, t \in SearchTypes :
       CallScoreRedditPost(post, q, t)
  \/ \E text \in LinkTexts : CallStripExternalLinks(text)
  \/ \E handler \in {"curated", "live"}, q \in NoMatchQueries, t \in SearchTypes :
       CallBuildNoMatchResult(handler, q, t)
  \/ \E i \in 1..Len(LOCAL_KNOWLEDGE), q \in CuratedQueries :
       CallScoreEntry(LOCAL_KNOWLEDGE[i], q)

CallSpec == Init /\ [][CallNext]_vars

(***************************************************************************)
(* Properties                                                              *)
(***************************************************************************)

\* the live GET has answered a request it accepted
LiveAnswered == route = "live" /\ pc = "done" /\ response.status = 200

\* the cards of the response
Cards == response.body.results

\* s holds http://, https:// or www. followed by a character that is no space
ContainsUrl(s) ==
  \E i \in 1..Len(s), prefix \in {"http://", "https://", "www."} :
    /\ StartsWithAt(s, i, prefix)
    /\ i + Len(prefix) <= Len(s)
    /\ Ch(s, i + Len(prefix)) \notin Whitespace

\* the string fields of a card
CardStrings(card) ==
  {card.id, card.title, card.summary, card.details}
    \cup Range(card.references) \cup Range(card.redditNotes)
    \cup {card.faq[i].question : i \in 1..Len(card.faq)}
    \cup {card.faq[i].answer : i \in 1..Len(card.faq)}

\* the q parameter is missing or holds nothing but whitespace
QueryIsBlank(req) ==
  ~Has(req, "q") \/ \A i \in 1..Len(req.q) : Ch(req.q, i) \in Whitespace

IsNoMatchCard(card) == startsWith(card.id, "no-match-")

\* the candidates that survived scoring and filtering
Candidates == IF route = "live" THEN dedupedRanked ELSE ranked

\* the number of query tokens in the stemmed tokens of text
TokensFound(text) ==
  Cardinality({i \in 1..Len(queryTokens) : queryTokens[i] \in Range(tokenizeLive(text))})

TitleOf(item) == OrElse(item.post, "title", "")

TitleAndBodyOf(item) == TitleOf(item) \o " " \o OrElse(item.post, "selftext", "")

IsAdmitted(item) == \E j \in 1..Len(admitted) : admitted[j] = item

ScoreEq(x, y) == ~ScoreGt(x, y) /\ ~ScoreGt(y, x)

\* the place of an item in a sequence that holds it once
PlaceIn(seq, item) == CHOOSE j \in 1..Len(seq) : seq[j] = item

NormalizedTitle(item) == normalizeForMatch(TitleOf(item))

\* C1: no string field of a card of the live route holds an outbound URL
\* (http://, https:// or www. followed by non-space characters), whatever the
\* query and the posts.  The code does not keep this: the query is echoed
\* unstripped, and markup is removed after the links are stripped.
C1_NoUrlInLiveCards ==
  LiveAnswered =>
    \A i \in 1..Len(Cards) : \A text \in CardStrings(Cards[i]) : ~ContainsUrl(text)

\* C2: an accepted query is answered with 1 to 8 cards on either route; when no
\* candidate survives, with the no-match card alone; and the no-match card
\* never stands beside a real candidate.
C2_OneToEightCards ==
  (pc = "done" /\ response.status = 200) =>
    /\ Len(Cards) >= 1
    /\ Len(Cards) <= 8
    /\ IF Len(Candidates) = 0
       THEN Len(Cards) = 1 /\ IsNoMatchCard(Cards[1])
       ELSE \A i \in 1..Len(Cards) : ~IsNoMatchCard(Cards[i])

\* more than 8 candidates survived and 8 cards were returned
C2_Witness ==
  /\ LiveAnswered
  /\ Len(dedupedRanked) > 8
  /\ Len(Cards) = 8

\* C3: a request whose query is missing or empty after trimming is rejected at
\* once with status 400: nothing is scored, no card is built, and the live
\* route starts no retrieval.
C3_BlankQueryRejected ==
  (route # "none" /\ QueryIsBlank(request)) =>
    /\ pc = "done"
    /\ response.status = 400
    /\ ~Has(response.body, "results")
    /\ fetchCalls = 0
    /\ timer = "unset"
    /\ outcome = "none"
    /\ scored = << >>
    /\ ranked = << >>

\* the live route has rejected a query of spaces
C3_Witness ==
  /\ route = "live"
  /\ Has(request, "q")
  /\ request.q = "   "
  /\ response.status = 400
  /\ fetchCalls = 0

\* C4: on the live route a retrieval that throws, answers non-OK, answers an
\* unparsable body or is aborted by the timeout counts as zero posts: the
\* request is answered with status 200 and exactly the no-match card.
C4_FailureGivesNoMatchCard ==
  (route = "live" /\ outcome \in {"throw", "non-ok", "unparsable", "timeout"}) =>
    /\ pc = "done"
    /\ response.status = 200
    /\ scored = << >>
    /\ Cards = <<buildNoMatchResultLive(query, type)>>
    /\ IsNoMatchCard(Cards[1])

\* an unparsable body was answered with one card
C4_Witness ==
  /\ LiveAnswered
  /\ outcome = "unparsable"
  /\ Len(Cards) = 1

\* C5: an accepted live request starts the retrieval exactly once, the
\* retrieval is abandoned when the timer fires, the timer is cancelled on
\* every exit path of the retrieval, and the request is eventually answered.
C5_RetrievalOnceThenAnswer ==
  /\ []((route = "live" /\ ~QueryIsBlank(request)) => fetchCalls = 1)
  /\ [](timer = "fired" => aborted)
  /\ []((aborted /\ pc = "done") => outcome = "timeout")
  /\ [](pc = "done" => timer # "armed")
  /\ (pc \in {"fetching", "reading"}) ~> (pc = "done" /\ response.status = 200)

\* a request whose retrieval the timer abandoned has been answered
C5_Witness ==
  /\ LiveAnswered
  /\ outcome = "timeout"
  /\ timer = "fired"
  /\ fetchCalls = 1

C7_AdmissionRule ==
  (LiveAnswered /\ Len(queryTokens) >= 1) =>
    \A i \in 1..Len(scored) :
      IsAdmitted(scored[i]) <=>
        /\ ScoreGE(scored[i].qualityScore, 7)
        /\ TokensFound(TitleOf(scored[i])) >= 1
        /\ Len(queryTokens) >= 2 =>
             2 * TokensFound(TitleAndBodyOf(scored[i])) >= Len(queryTokens)

\* a three-token query: a post with a title hit and a score of 7 or more fails
\* on coverage, and another post is admitted
C7_Witness ==
  /\ LiveAnswered
  /\ Len(queryTokens) = 3
  /\ Len(admitted) > 0
  /\ \E i \in 1..Len(scored) :
       /\ ~IsAdmitted(scored[i])
       /\ scored[i].overlapTitle >= 1
       /\ ScoreGE(scored[i].qualityScore, 7)
       /\ scored[i].overlap = 1

\* C8 as stated: for a query of 2 or more tokens a post without a title hit is
\* admitted when its overlap is at least the minimum coverage plus 1 and its
\* score at least 7, and rejected when its overlap is below that.
C8_StrongBodyQualifies ==
  (LiveAnswered /\ Len(queryTokens) >= 2) =>
    \A i \in 1..Len(scored) :
      scored[i].overlapTitle = 0 =>
        (IsAdmitted(scored[i]) <=>
           /\ 2 * (scored[i].overlap - 1) >= Len(queryTokens)
           /\ ScoreGE(scored[i].qualityScore, 7))

\* C8: for a query of 2 or more tokens a post without a title hit is never
\* admitted, whatever its overlap and its score.
C8_NoTitleHitNeverAdmitted ==
  (LiveAnswered /\ Len(queryTokens) >= 2) =>
    \A i \in 1..Len(scored) :
      TokensFound(TitleOf(scored[i])) = 0 => ~IsAdmitted(scored[i])

\* a post without a title hit, with every token of a two-token query in its
\* body and a score of 7 or more, was rejected
C8_Witness ==
  /\ LiveAnswered
  /\ Len(queryTokens) = 2
  /\ \E i \in 1..Len(scored) :
       /\ scored[i].overlapTitle = 0
       /\ scored[i].overlap = 2
       /\ ScoreGE(scored[i].qualityScore, 7)
       /\ ~IsAdmitted(scored[i])

\* C9: the live results are in descending order of quality score, equal scores
\* in retrieval order; of the admitted posts of one normalized title only the
\* first in sorted order is kept, a post whose normalized title is empty only
\* if it is first in the sorted list; and no two cards share a normalized title.
C9_SortedAndDeduplicated ==
  LiveAnswered =>
    /\ Len(sorted) = Len(admitted)
    /\ \A i \in 1..Len(admitted) : \E k \in 1..Len(sorted) : sorted[k] = admitted[i]
    /\ \A k \in 1..Len(sorted), m \in 1..Len(sorted) :
         k < m =>
           /\ ~ScoreGt(sorted[m].qualityScore, sorted[k].qualityScore)
           /\ ScoreEq(sorted[k].qualityScore, sorted[m].qualityScore) =>
                PlaceIn(admitted, sorted[k]) < PlaceIn(admitted, sorted[m])
    /\ \A k \in 1..Len(sorted) :
         (\E d \in 1..Len(dedupedRanked) : dedupedRanked[d] = sorted[k]) <=>
           IF NormalizedTitle(sorted[k]) = "" THEN k = 1
           ELSE \A m \in 1..(k - 1) : NormalizedTitle(sorted[m]) # NormalizedTitle(sorted[k])
    /\ \A d \in 1..Len(dedupedRanked), e \in 1..Len(dedupedRanked) :
         d < e =>
           /\ PlaceIn(sorted, dedupedRanked[d]) < PlaceIn(sorted, dedupedRanked[e])
           /\ NormalizedTitle(dedupedRanked[d]) # NormalizedTitle(dedupedRanked[e])
    /\ Len(dedupedRanked) > 0 =>
         /\ Len(Cards) = Min(8, Len(dedupedRanked))
         /\ \A i \in 1..Len(Cards) : Cards[i].id = "reddit-" \o dedupedRanked[i].post.id

\* the sort moved a post ahead of an earlier one of the same normalized title
\* and a lower score, which was then dropped, and left a tie in retrieval order
C9_Witness ==
  /\ LiveAnswered
  /\ \E k \in 1..Len(sorted), m \in 1..Len(sorted) :
       /\ k < m
       /\ NormalizedTitle(sorted[k]) = NormalizedTitle(sorted[m])
       /\ NormalizedTitle(sorted[k]) # ""
       /\ ScoreGt(sorted[k].qualityScore, sorted[m].qualityScore)
       /\ PlaceIn(admitted, sorted[m]) < PlaceIn(admitted, sorted[k])
       /\ \A d \in 1..Len(dedupedRanked) : dedupedRanked[d] # sorted[m]
  /\ \E k \in 1..Len(dedupedRanked), m \in 1..Len(dedupedRanked) :
       /\ k < m
       /\ ScoreEq(dedupedRanked[k].qualityScore, dedupedRanked[m].qualityScore)

\* the vocabularies of the dispatcher, in its order
FollowUpVocabularies ==
  << {"where", "find", "location"},
     {"how", "use", "craft", "build"},
     {"tip", "best", "fast", "efficient"},
     {"reddit"},
     {"video", "watch"} >>

\* the normalized question q holds a word of vocabulary v
Matches(q, v) == \E w \in FollowUpVocabularies[v] : includes(q, w)

\* the branch an answer came from: 1 location, 2 how, 3 tip, 4 forum, 5 video,
\* 6 FAQ, 7 generic
BranchOf(result, answer) ==
  IF startsWith(answer, "Where-to-find summary:\n") THEN 1
  ELSE IF \/ startsWith(toLowerCase(SubSeq(answer, 1, Min(11, Len(answer)))), "how to use:")
          \/ answer = "This entry includes how-to guidance in the details section above."
       THEN 2
  ELSE IF startsWith(answer, "Top tips:\n") THEN 3
  ELSE IF \/ startsWith(answer, "Reddit references are summarized in-app only:\n")
          \/ answer = "This entry has no Reddit-derived notes yet."
       THEN 4
  ELSE IF \/ startsWith(answer, "Open the video guide section in this card.")
          \/ startsWith(answer, "This entry does not have a curated video clip yet")
       THEN 5
  ELSE IF \E i \in 1..Len(result.faq) : result.faq[i].answer = answer THEN 6
  ELSE IF startsWith(answer, "From this result:\n") THEN 7
  ELSE 0

HasBulletedLine(result) ==
  \E i \in 1..Len(result.details) :
    /\ StartsWithAt(result.details, i, "- ")
    /\ i = 1 \/ Ch(result.details, i - 1) = "\n"

\* the vocabularies, in order, that the normalized question q matches and
\* whose branch answers: the tip branch answers only if bulleted
Answering(q, bulleted) ==
  SelectSeq(<<1, 2, 3, 4, 5>>, LAMBDA v : Matches(q, v) /\ (v = 3 => bulleted))

\* the branch the cascade owes a question: the first vocabulary it matches,
\* the tip branch being passed over for a card without a bulleted line; 0
\* when no vocabulary answers
BranchOwed(result, question) ==
  ApplyTo(Answering(normalize(question), HasBulletedLine(result)), LAMBDA answering :
    IF Len(answering) > 0 THEN answering[1] ELSE 0)

\* the questions of a chat with their answers
Exchanges(history) ==
  {<<history[2 * n - 1].text, history[2 * n].text>> : n \in 1..(Len(history) \div 2)}

\* C10: the follow-up dispatcher answers with the first branch, in the order
\* location, how, tip, forum, video, whose vocabulary the question matches,
\* and with the FAQ or the generic branch when it matches none; the tip branch
\* answers only for a card whose details hold a bulleted line.
C10_FirstMatchWins ==
  \A i \in 1..Len(results) :
    Has(chatByResultKey, getResultKey(results[i])) =>
      \A exchange \in Exchanges(chatByResultKey[getResultKey(results[i])]) :
        ApplyTo(BranchOwed(results[i], exchange[1]), LAMBDA owed :
          IF owed # 0
          THEN BranchOf(results[i], exchange[2]) = owed
          ELSE BranchOf(results[i], exchange[2]) \in {6, 7})

\* a question with a location word and a tip word got the where-to-find answer,
\* on a card with bulleted lines
C10_Witness ==
  \E i \in 1..Len(results) :
    /\ HasBulletedLine(results[i])
    /\ Has(chatByResultKey, getResultKey(results[i]))
    /\ \E exchange \in Exchanges(chatByResultKey[getResultKey(results[i])]) :
         /\ Matches(normalize(exchange[1]), 1)
         /\ Matches(normalize(exchange[1]), 3)
         /\ BranchOf(results[i], exchange[2]) = 1

\* a successful search: the cards are replaced and every conversation is reset
SearchLoads ==
  /\ expandedResultKeys' = << >>
  /\ chatByResultKey' = EmptyObject
  /\ chatInputByResultKey' = EmptyObject

\* the conversation of results[i] gains the question typed into its input and
\* the dispatcher's answer, after the turns it had; no other conversation changes
ExchangeAppended(i) ==
  LET key == getResultKey(results[i])
      old == OrElse(chatByResultKey, key, << >>)
      asked == trim(OrElse(chatInputByResultKey, key, ""))
      new == chatByResultKey'[key]
  IN  /\ asked # ""
      /\ DOMAIN chatByResultKey' = DOMAIN chatByResultKey \cup {key}
      /\ \A k \in DOMAIN chatByResultKey \ {key} : chatByResultKey'[k] = chatByResultKey[k]
      /\ Len(new) = Len(old) + 2
      /\ \A n \in 1..Len(old) : new[n] = old[n]
      /\ new[Len(old) + 1] = [role |-> "user", text |-> asked]
      /\ new[Len(old) + 2] =
           [role |-> "assistant", text |-> buildFollowUpAnswer(results[i], asked, old)]

\* C11: between two successful searches every conversation is append-only: a
\* step either leaves all conversations as they are (so does a blank
\* submission), or adds to one card's conversation exactly the non-blank
\* question and then the answer, keeping the earlier turns in place and the
\* other cards' conversations unchanged.
C11_ConversationAppendOnly ==
  [][ \/ chatByResultKey' = chatByResultKey
      \/ SearchLoads
      \/ \E i \in 1..Len(results) : ExchangeAppended(i) ]_vars

\* a card was asked two questions, and both exchanges are in its conversation
C11_Witness ==
  \E i \in 1..Len(results) :
    /\ Has(chatByResultKey, getResultKey(results[i]))
    /\ Len(chatByResultKey[getResultKey(results[i])]) = 4
    /\ chatByResultKey[getResultKey(results[i])][1].text
         # chatByResultKey[getResultKey(results[i])][3].text

\* the function called on its own is fn
IsCall(fn) == Has(call, "fn") /\ call.fn = fn

\* the identifier of the no-match card of handler for query q and mode t
NoMatchIdOf(handler, q, t) ==
  IF handler = "live" THEN buildNoMatchResultLive(q, t).id ELSE buildNoMatchResult(q, t).id

\* C12: the identifier of the no-match card depends on the normalized query
\* alone: queries that normalize to the same text get the same identifier,
\* whatever the mode and the casing and punctuation typed, and a query that
\* normalizes to the empty text gets no-match-query.
C12_NoMatchIdOfNormalizedQuery ==
  IsCall("buildNoMatchResult") =>
    /\ \A q \in NoMatchQueries, t \in SearchTypes :
         normalizeForMatch(q) = normalizeForMatch(call.query) =>
           NoMatchIdOf(call.handler, q, t) = returned.id
    /\ normalizeForMatch(call.query) = "" => returned.id = "no-match-query"

\* a query typed in capitals with punctuation gets the identifier of its
\* normalized text
C12_Witness ==
  /\ IsCall("buildNoMatchResult")
  /\ call.query = "RADIANT-HEART!"
  /\ call.type = "where"
  /\ returned.id = "no-match-radiant-heart"
  /\ NoMatchIdOf(call.handler, "radiant heart", "howto") = returned.id

\* the unstemmed tokens of an entry's title, aliases, where-text, how-text and tips
EntryTokens(entry) ==
  Range(tokenize(entry.title)) \cup Range(tokenize(entry.whereToFind))
    \cup Range(tokenize(entry.howToUse))
    \cup UNION {Range(tokenize(entry.aliases[i])) : i \in 1..Len(entry.aliases)}
    \cup UNION {Range(tokenize(entry.tips[i])) : i \in 1..Len(entry.tips)}

TitleMatches(entry, q) == normalizeForMatch(entry.title) = normalizeForMatch(q)

\* the aliases of entry whose normalized form is a substring of the normalized q
AliasesMatching(entry, q) ==
  {i \in 1..Len(entry.aliases) :
     includes(normalizeForMatch(q), normalizeForMatch(entry.aliases[i]))}

\* the tokens of q, each place of the query counted, that are tokens of entry
TokensMatching(entry, q) ==
  {j \in 1..Len(tokenize(q)) : tokenize(q)[j] \in EntryTokens(entry)}

\* C13: the curated score of an entry is 120 if the normalized title equals the
\* normalized query, plus 80 for each alias whose normalized form is a
\* substring of the normalized query, plus 12 for each query token among the
\* entry's tokens, whatever the number of times the entry holds it; it is
\* never negative.
C13_CuratedScore ==
  IsCall("scoreEntry") =>
    /\ returned = (IF TitleMatches(call.entry, call.query) THEN 120 ELSE 0)
                    + 80 * Cardinality(AliasesMatching(call.entry, call.query))
                    + 12 * Cardinality(TokensMatching(call.entry, call.query))
    /\ returned >= 0

\* two aliases and two tokens match, and the entry holds the token radiant in
\* more than one place
C13_Witness ==
  /\ IsCall("scoreEntry")
  /\ call.query = "radiant hearts"
  /\ call.entry.id = "radiant-heart"
  /\ Cardinality(AliasesMatching(call.entry, call.query)) = 2
  /\ "radiant" \in Range(tokenize(call.entry.title))
  /\ "radiant" \in Range(tokenize(call.entry.whereToFind))
  /\ returned = 184

\* the curated GET has answered a request it accepted
CuratedAnswered == route = "curated" /\ pc = "done" /\ response.status = 200

\* entry matches q through its tokens alone: neither its title nor an alias matches
TokenOverlapOnly(entry, q) ==
  /\ ~TitleMatches(entry, q)
  /\ AliasesMatching(entry, q) = {}
  /\ TokensMatching(entry, q) # {}

\* C14: an entry whose normalized title equals the normalized query scores
\* strictly more than every entry that matches through token overlap alone,
\* and is ranked before it.
C14_TitleMatchOutranksTokenOverlap ==
  CuratedAnswered =>
    \A a \in 1..Len(LOCAL_KNOWLEDGE), b \in 1..Len(LOCAL_KNOWLEDGE) :
      (TitleMatches(LOCAL_KNOWLEDGE[a], query) /\ TokenOverlapOnly(LOCAL_KNOWLEDGE[b], query)) =>
        /\ scoreEntry(LOCAL_KNOWLEDGE[a], query) > scoreEntry(LOCAL_KNOWLEDGE[b], query)
        /\ \E m \in 1..Len(ranked), n \in 1..Len(ranked) :
             /\ m < n
             /\ ranked[m].entry = LOCAL_KNOWLEDGE[a]
             /\ ranked[n].entry = LOCAL_KNOWLEDGE[b]
             /\ Cards[m].id = LOCAL_KNOWLEDGE[a].id
             /\ Cards[n].id = LOCAL_KNOWLEDGE[b].id

\* the query is a title, and another entry holds one of its tokens
C14_Witness ==
  /\ CuratedAnswered
  /\ query = "Salvaged Data"
  /\ Len(ranked) = 2
  /\ TitleMatches(ranked[1].entry, query)
  /\ TokenOverlapOnly(ranked[2].entry, query)
  /\ ranked[2].score = 12

\* the place of an entry in the knowledge table
TablePlace(entry) == CHOOSE i \in 1..Len(LOCAL_KNOWLEDGE) : LOCAL_KNOWLEDGE[i] = entry

\* the entries of the table that score more than 0 for q
PositiveEntries(q) ==
  {i \in 1..Len(LOCAL_KNOWLEDGE) : scoreEntry(LOCAL_KNOWLEDGE[i], q) > 0}

\* C15: the curated results are the entries that score more than 0, in
\* descending order of score, equal scores in the order of the table, cut to
\* the first 8.
C15_CuratedRanking ==
  CuratedAnswered =>
    /\ Len(ranked) = Min(8, Cardinality(PositiveEntries(query)))
    /\ \A k \in 1..Len(ranked) :
         /\ TablePlace(ranked[k].entry) \in PositiveEntries(query)
         /\ ranked[k].score = scoreEntry(ranked[k].entry, query)
    /\ \A m \in 1..Len(ranked), n \in 1..Len(ranked) :
         m < n =>
           \/ ranked[m].score > ranked[n].score
           \/ /\ ranked[m].score = ranked[n].score
              /\ TablePlace(ranked[m].entry) < TablePlace(ranked[n].entry)
    /\ \A i \in PositiveEntries(query) :
         \/ \E k \in 1..Len(ranked) : ranked[k].entry = LOCAL_KNOWLEDGE[i]
         \/ /\ Len(ranked) = 8
            /\ scoreEntry(LOCAL_KNOWLEDGE[i], query) <= ranked[8].score
    /\ Len(ranked) > 0 =>
         /\ Len(Cards) = Len(ranked)
         /\ \A k \in 1..Len(ranked) : Cards[k].id = ranked[k].entry.id

\* a later entry of the table outscores two earlier ones, which tie and keep
\* their order; three entries score 0 and are left out
C15_Witness ==
  /\ CuratedAnswered
  /\ Len(ranked) = 3
  /\ TablePlace(ranked[1].entry) > TablePlace(ranked[3].entry)
  /\ ranked[1].score > ranked[2].score
  /\ ranked[2].score = ranked[3].score
  /\ TablePlace(ranked[2].entry) < TablePlace(ranked[3].entry)
  /\ Cardinality(PositiveEntries(query)) = 3

\* C16: a curated card's summary is the entry's where-text when the type
\* parameter is where and its how-text for any other value, and its details
\* begin with "Where to find: " and the where-text; the query nanites in mode
\* howto is answered with one card, of the nanites entry, whose summary is its
\* how-text.
C16_CuratedCardSummary ==
  CuratedAnswered =>
    /\ \A k \in 1..Len(ranked) :
         /\ Cards[k].summary =
              IF Has(request, "type") /\ request.type = "where"
              THEN ranked[k].entry.whereToFind
              ELSE ranked[k].entry.howToUse
         /\ startsWith(Cards[k].details, "Where to find: " \o ranked[k].entry.whereToFind)
    /\ (query = "nanites" /\ type = "howto") =>
         /\ Len(Cards) = 1
         /\ Cards[1].id = "nanites"
         /\ Cards[1].summary = LOCAL_KNOWLEDGE[6].howToUse
         /\ startsWith(Cards[1].details, "Where to find: Earned from scanning")

\* the query nanites with a type parameter that is no mode: the how-text
C16_Witness ==
  /\ CuratedAnswered
  /\ request = [q |-> "nanites", type |-> "WHERE"]
  /\ type = "howto"
  /\ Len(Cards) = 1
  /\ Cards[1].summary = LOCAL_KNOWLEDGE[6].howToUse
  /\ Cards[1].summary # LOCAL_KNOWLEDGE[6].whereToFind

\* s holds a markdown link to http://, https:// or www.
ContainsMarkdownLink(s) == \E j \in 1..Len(s) : MdLinkEnd(s, j) > 0

\* C17: what stripExternalLinks returns holds no link, bare or in a markdown
\* span, and stripExternalLinks leaves it as it is.  The code does not keep
\* this: a bare link removed from between brackets can leave a markdown link
\* behind, which a second pass removes.
C17_StripLinksIdempotentLinkFree ==
  IsCall("stripExternalLinks") =>
    /\ ~ContainsUrl(returned)
    /\ ~ContainsMarkdownLink(returned)
    /\ stripExternalLinks(returned) = returned

\* twice the part of the live score that is neither the engagement bonus nor
\* the meta penalty
HalfBeforePenalty(post, tokens, t) ==
  LET title == cleanText(OrElse(post, "title", ""))
      body == cleanText(OrElse(post, "selftext", ""))
  IN  20 * countTokenOverlap(title, tokens) + 8 * countTokenOverlap(body, tokens)
        + 6 * countKeywordHits(title, MODE_KEYWORDS[t])
        + 3 * countKeywordHits(body, MODE_KEYWORDS[t])
        + 2 * (IF Len(body) >= 60 THEN 1 ELSE 0)
        + 2 * (IF hasNmsContext(post) THEN 2 ELSE 0)

\* what the call of scoreRedditPost subtracted as the meta penalty
PenaltyTaken ==
  (HalfBeforePenalty(call.post, call.queryTokens, call.type) - returned.half) \div 2

\* the words of text as they are written
WordsOf(text) == Range(tokenize(text))

\* the words of text as they are written and as the live tokenizer stems them
WordsAndStemsOf(text) == WordsOf(text) \cup Range(tokenizeLive(text))

MetaWords == Range(META_TITLE_KEYWORDS)

\* C18: the scorer subtracts 4 whenever the title holds a word of the meta
\* vocabulary and the query holds none, and subtracts nothing when the query
\* holds such a word or the title holds none.  The code does not keep this:
\* the stemmer turns impressions into impression, which is not in the
\* vocabulary, in the title and in the query.
C18_MetaPenalty ==
  IsCall("scoreRedditPost") =>
    /\ ( /\ WordsOf(OrElse(call.post, "title", "")) \cap MetaWords # {}
         /\ WordsAndStemsOf(call.query) \cap MetaWords = {} ) => PenaltyTaken = 4
    /\ ( \/ WordsOf(call.query) \cap MetaWords # {}
         \/ WordsAndStemsOf(OrElse(call.post, "title", "")) \cap MetaWords = {} )
           => PenaltyTaken = 0

\* the sum of a post's score and comment count
Engagement(post) == OrElse(post, "score", 0) + OrElse(post, "num_comments", 0)

\* C19: the argument of the logarithm of the engagement bonus is
\* max(score + comments, 0) + 1, so the bonus of a post whose score and
\* comments sum to zero or less is 0; and the bonus does not decrease as the
\* sum grows.  The code does not keep this: it takes max(score + comments, 1) + 1.
C19_EngagementBonus ==
  IsCall("scoreRedditPost") =>
    /\ returned.arg = Max(Engagement(call.post), 0) + 1
    /\ Engagement(call.post) <= 0 => returned.arg = 1
    /\ \A other \in ScoredPosts :
         Engagement(other) <= Engagement(call.post) =>
           scoreRedditPost(other, call.queryTokens, call.type).arg <= returned.arg

\* the number of keyword groups of the call of which sentence i holds a keyword
GroupsMatched(i) ==
  Cardinality({g \in 1..Len(call.keywordGroups) :
    \E k \in 1..Len(call.keywordGroups[g]) :
      includes(normalizeForMatch(call.sentences[i]), call.keywordGroups[g][k])})

\* sentence j comes before sentence i: it matches more groups, or as many and
\* stands earlier
Before(j, i) ==
  \/ GroupsMatched(j) > GroupsMatched(i)
  \/ GroupsMatched(j) = GroupsMatched(i) /\ j < i

\* the sentence that has n - 1 sentences before it
NthBest(n) ==
  call.sentences[CHOOSE i \in 1..Len(call.sentences) :
    Cardinality({j \in 1..Len(call.sentences) : Before(j, i)}) = n - 1]

\* C20: the selection returns between 1 and N lines: the fallback sentence
\* exactly when there is no sentence, and otherwise the first N sentences in
\* the order of the number of keyword groups matched, ties in the original
\* order, so that a sentence that matches no group is returned only when
\* fewer than N sentences match one.
C20_SummarizerSelection ==
  IsCall("pickBestSentences") =>
    /\ Len(returned) >= 1
    /\ Len(returned) <= call.count
    /\ (returned = <<call.fallback>>) <=> (call.sentences = << >>)
    /\ call.sentences # << >> =>
         /\ Len(returned) = Min(call.count, Len(call.sentences))
         /\ \A n \in 1..Len(returned) : returned[n] = NthBest(n)
         /\ \A n \in 1..Len(returned) :
              (\E i \in 1..Len(call.sentences) :
                 call.sentences[i] = returned[n] /\ GroupsMatched(i) = 0)
                => Cardinality({i \in 1..Len(call.sentences) : GroupsMatched(i) > 0}) < call.count

\* of five sentences the one that matches two groups comes first, then the
\* first two that match one, and the two that match none are left out
C20_Witness ==
  /\ IsCall("pickBestSentences")
  /\ Len(call.sentences) = 5
  /\ call.count = 3
  /\ returned = <<"Farm and find drops.", "Find the planet.", "Where is the station?">>

\* the fragment carries an identifier and a title
HasIdAndTitle(post) ==
  /\ Has(post, "id") /\ post.id # ""
  /\ Has(post, "title") /\ post.title # ""

IsMalformed(child) == ~HasIdAndTitle(dataOf(child))

\* the payload with its malformed fragments taken out
WithoutMalformed(payload) ==
  [data |-> [children |-> SelectSeq(childrenOf(payload), LAMBDA child : ~IsMalformed(child))]]

\* the response the handler gives to a payload
AnswerTo(payload) ==
  ApplyTo(scoredItems(payload, queryTokens, type), LAMBDA items :
  ApplyTo(admittedItems(items, queryTokens), LAMBDA kept :
  ApplyTo(sortByQuality(kept), LAMBDA ordered :
  ApplyTo(dedupeByTitle(ordered), LAMBDA firsts :
    OkResponse(query, type, liveResults(firsts, query, type))))))

\* C21: a retrieved fragment without an identifier or without a title is never
\* a scored candidate nor a card, and the request still succeeds: the answer
\* is the one the payload without its malformed fragments gets.
C21_MalformedFragmentsIgnored ==
  (route = "live" /\ pc = "done" /\ outcome = "ok") =>
    /\ response.status = 200
    /\ \A i \in 1..Len(scored) : HasIdAndTitle(scored[i].post)
    /\ \A i \in 1..Len(Cards) :
         \/ IsNoMatchCard(Cards[i])
         \/ \E k \in 1..Len(childrenOf(redditPayload)) :
              /\ ~IsMalformed(childrenOf(redditPayload)[k])
              /\ Cards[i].id = "reddit-" \o childrenOf(redditPayload)[k].data.id
    /\ scored = scoredItems(WithoutMalformed(redditPayload), queryTokens, type)
    /\ response = AnswerTo(WithoutMalformed(redditPayload))

\* a payload with a fragment without identifier, one without title and a
\* well-formed post was answered with the card of that post
C21_Witness ==
  /\ route = "live" /\ pc = "done" /\ outcome = "ok"
  /\ \E k \in 1..Len(childrenOf(redditPayload)) :
       LET post == dataOf(childrenOf(redditPayload)[k])
       IN  Has(post, "id") /\ ~Has(post, "title")
  /\ \E k \in 1..Len(childrenOf(redditPayload)) :
       LET post == dataOf(childrenOf(redditPayload)[k])
       IN  ~Has(post, "id") /\ Has(post, "title")
  /\ Len(childrenOf(redditPayload)) <= MaxPosts
  /\ Len(Cards) = 1
  /\ ~IsNoMatchCard(Cards[1])

\* the number of distinct tokens the two texts share
TokenOverlap(a, b) == Cardinality(Range(tokenize(a)) \cap Range(tokenize(b)))

\* the FAQ entry with the highest overlap with the question, the earliest of
\* those; 0 for a card without FAQ
BestFaq(result, question) ==
  IF Len(result.faq) = 0 THEN 0
  ELSE CHOOSE i \in 1..Len(result.faq) :
         /\ \A j \in 1..Len(result.faq) :
              TokenOverlap(question, result.faq[j].question)
                <= TokenOverlap(question, result.faq[i].question)
         /\ \A j \in 1..(i - 1) :
              TokenOverlap(question, result.faq[j].question)
                < TokenOverlap(question, result.faq[i].question)

HasAskerTurn(history) == \E i \in 1..Len(history) : history[i].role = "user"

FirstAskPrompt ==
  "Ask another question about route, gear prep, or quickest method and I'll narrow this down."

LaterAskPrompt ==
  "If you want, ask a narrower follow-up (example: fastest route, required gear, or inventory prep)."

\* the question matches no vocabulary of the cascade
NoKeywordBranch(question) ==
  \A v \in 1..Len(FollowUpVocabularies) : ~Matches(normalize(question), v)

\* C22: when no keyword branch matches, the answer is the answer of the FAQ
\* entry with the highest token overlap with the question, the earliest on
\* ties, provided that overlap is above 0; otherwise it is the card summary,
\* its references and a follow-up prompt, and the prompt is the later-ask one
\* exactly when the history holds an asker turn.
C22_FaqThenGeneric ==
  (IsCall("buildFollowUpAnswer") /\ NoKeywordBranch(call.question)) =>
    ApplyTo(BestFaq(call.result, call.question), LAMBDA best :
      IF best # 0 /\ TokenOverlap(call.question, call.result.faq[best].question) > 0
      THEN returned = call.result.faq[best].answer
      ELSE /\ startsWith(returned, "From this result:\n" \o call.result.summary)
           /\ \A i \in 1..Len(call.result.references) :
                includes(returned, "- " \o call.result.references[i])
           /\ FirstAskPrompt # LaterAskPrompt
           /\ endsWith(returned, "\n\n" \o (IF HasAskerTurn(call.history)
                                            THEN LaterAskPrompt ELSE FirstAskPrompt)))

\* two FAQ entries tie for the highest overlap and the first one answers
C22_Witness ==
  /\ IsCall("buildFollowUpAnswer")
  /\ NoKeywordBranch(call.question)
  /\ Len(call.result.faq) = 2
  /\ TokenOverlap(call.question, call.result.faq[1].question) = 2
  /\ TokenOverlap(call.question, call.result.faq[2].question) = 2
  /\ returned = call.result.faq[1].answer

\* the second FAQ entry has the higher overlap and answers
C22_WitnessLaterEntry ==
  /\ IsCall("buildFollowUpAnswer")
  /\ NoKeywordBranch(call.question)
  /\ Len(call.result.faq) = 2
  /\ TokenOverlap(call.question, call.result.faq[1].question) = 0
  /\ returned = call.result.faq[2].answer

\* no FAQ entry shares a token with the question, and the generic answer ends
\* with the later-ask prompt after a first question
C22_WitnessGeneric ==
  /\ IsCall("buildFollowUpAnswer")
  /\ NoKeywordBranch(call.question)
  /\ Len(call.result.faq) > 0
  /\ Len(call.result.references) > 0
  /\ HasAskerTurn(call.history)
  /\ endsWith(returned, LaterAskPrompt)

\* the key of a card: its source label and its identifier
KeyOf(card) == <<card.source, card.id>>

KeysOf(cards) == {KeyOf(cards[i]) : i \in 1..Len(cards)}

NoDuplicateKeys(cards) ==
  \A i, j \in 1..Len(cards) : KeyOf(cards[i]) = KeyOf(cards[j]) => i = j

\* a step of the mounted page that changes the favorites: a toggle
ToggleStep == mountPc = "settled" /\ mountPc' = "settled" /\ favorites' # favorites

\* the step is the toggle of card: an absent card is put at the front, a
\* present one is removed, and a second toggle gives back the keys
IsToggleOf(card) ==
  /\ IF KeyOf(card) \in KeysOf(favorites)
     THEN /\ favorites' = SelectSeq(favorites, LAMBDA item : KeyOf(item) # KeyOf(card))
          /\ KeyOf(card) \notin KeysOf(favorites')
     ELSE favorites' = <<card>> \o favorites
  /\ KeysOf(toggled(favorites', card)) = KeysOf(favorites)

\* C23: the favorites never hold two cards with the same (source label,
\* identifier) key; a toggle puts an absent card at the front and removes a
\* present one, and toggling the same card twice restores the set of keys.
C23_FavoritesToggle ==
  /\ []NoDuplicateKeys(favorites)
  /\ [][ToggleStep => \E card \in ShownCards : IsToggleOf(card)]_vars

\* a card was removed from two favorites the browser still holds
C23_Witness ==
  /\ mountPc = "settled"
  /\ persistPending
  /\ Len(favorites) = 1
  /\ Has(localStorage, FAVORITES_STORAGE_KEY)
  /\ Len(JSONparse(localStorage[FAVORITES_STORAGE_KEY])) = 2
  /\ KeysOf(favorites) \subseteq KeysOf(JSONparse(localStorage[FAVORITES_STORAGE_KEY]))

\* the favorites the page load found in the browser
LoadedFavorites == JSONparse(loadedStorage[FAVORITES_STORAGE_KEY])

\* the item the browser holds is the text of the favorites in memory
StoredIsCurrent ==
  /\ Has(localStorage, FAVORITES_STORAGE_KEY)
  /\ localStorage[FAVORITES_STORAGE_KEY] = JSONstringify(favorites)

\* the render that follows the mount effects
MountSettles == mountPc = "flushed" /\ mountPc' = "settled"

\* the persist effect of a render runs
PersistRuns == mountPc' = "settled" /\ persistPending /\ ~persistPending'

\* C24: a page loaded with a stored favorites list F does not lose it: once
\* the mount effects and the render they ask for have run, however often the
\* framework runs the effects, the favorites in memory are F, the persist
\* effect of that render stores them, and from then on the stored item
\* always eventually is the list in memory.  The code does not keep this
\* when the mount effects run twice.
C24_StoredFavoritesSurviveLoad ==
  /\ [][(MountSettles /\ Has(loadedStorage, FAVORITES_STORAGE_KEY))
          => favorites' = LoadedFavorites]_vars
  /\ [][PersistRuns => StoredIsCurrent']_vars
  /\ [](mountPc = "settled" => <>StoredIsCurrent)

\* a page loaded with one stored favorite has settled with none, and the
\* browser holds none
C24_FavoritesLost ==
  /\ mountPc = "settled"
  /\ Has(loadedStorage, FAVORITES_STORAGE_KEY)
  /\ Len(LoadedFavorites) = 1
  /\ favorites = << >>
  /\ ~persistPending
  /\ localStorage[FAVORITES_STORAGE_KEY] = JSONstringify(<< >>)
  /\ results = << >>

\* the same claim for the runs in which the effects of every mount run once:
\* the first two parts of C24 with the lost list excluded
C24_PersistStoresCurrent == [][PersistRuns => StoredIsCurrent']_vars

C24_EventuallyStored == [](mountPc = "settled" => <>StoredIsCurrent)

\* a step in which the search form is submitted with a blank query
BlankSubmit ==
  \E typedQuery \in TypedQueries, searchType \in SearchTypes :
    /\ \A i \in 1..Len(typedQuery) : Ch(typedQuery, i) \in Whitespace
    /\ onSearch(typedQuery, searchType)

\* a step in which a request is issued
RequestIssued == onSearchPc = "idle" /\ onSearchPc' = "fetching"

\* a step in which the request in flight completes
RequestCompletes == onSearchPc # "idle" /\ onSearchPc' = "idle"

\* the request ended with the cards of the body it read
EndsLoaded ==
  /\ onSearchPc = "reading"
  /\ error' = null
  /\ results' = OrElse(searchPayload', "results", << >>)
  /\ expandedResultKeys' = << >>
  /\ chatByResultKey' = EmptyObject
  /\ chatInputByResultKey' = EmptyObject

\* the request ended with a message and no results
EndsFailed ==
  /\ error' # null
  /\ error' # ""
  /\ results' = << >>

\* C25: every submitted search ends with isLoading false; a blank query sets
\* an error and empties the results, issues no request and does not set
\* isLoading; a request that completes ends either with no error, the results
\* of the response and the expanded flags, chats and chat inputs cleared, or,
\* after a non-OK response or a thrown failure, with an error message and no
\* results.
C25_SearchOutcome ==
  /\ isLoading ~> ~isLoading
  /\ [](onSearchPc # "idle" => isLoading)
  /\ [][BlankSubmit => /\ error' # null
                       /\ results' = << >>
                       /\ ~RequestIssued
                       /\ ~isLoading']_vars
  /\ [][RequestCompletes => /\ ~isLoading'
                            /\ (EndsLoaded \/ EndsFailed)
                            /\ (onSearchPc = "fetching" => EndsFailed)]_vars

\* a search ended with no error and the cards of its response
C25_Witness ==
  /\ ~isLoading
  /\ onSearchPc = "idle"
  /\ error = null
  /\ Has(searchPayload, "results")
  /\ Len(results) > 0
  /\ results = searchPayload.results

\* a search failed and left a message, no results, and the chat of a card
\* shown before
C25_WitnessFailed ==
  /\ ~isLoading
  /\ error = "Could not load live results right now."
  /\ results = << >>
  /\ DOMAIN chatByResultKey # {}

\* a blank query was submitted over results: the message is set, nothing loads
C25_WitnessBlank ==
  /\ ~isLoading
  /\ onSearchPc = "idle"
  /\ error = "Enter a search term first."
  /\ results = << >>
  /\ Has(searchPayload, "results")

====
